---- MODULE Spec2Model ----
(***************************************************************************)
(* Prompt Dojo (src/app.py): the session state of the Streamlit script,    *)
(* the quiz / challenge / free-analysis exercises, the sidebar, and the    *)
(* content pipeline (provider call, response clean-up, JSON parsing,       *)
(* fallback, score extraction).                                            *)
(*                                                                         *)
(* One step of the model is one run of the script (main(): init, sidebar,  *)
(* main content) triggered by one widget event, together with the rerun    *)
(* that st.rerun() asks for.  The session keys gemini_model (the model     *)
(* name the Gemini client is given) and improved_prompt_text (a copy of    *)
(* displayed text) are written and read by no handler and are left out.    *)
(*                                                                         *)
(* Python values that share a slot with None are wrapped in one-field      *)
(* records (None, PyStr, PyBool, PyInt, PyDict).  A Python str is a        *)
(* sequence of text units; a unit is one character, or one of the markers  *)
(* the code searches for ("<fence>", three backticks; "json"; "TOTAL:";    *)
(* "Error: "), or a whole JSON document.                                   *)
(***************************************************************************)
EXTENDS Integers, Sequences, FiniteSets, TLC

VARIABLES
    session_state,      \* st.session_state: the keys of init_session_state
    user_prompt_input,  \* the keyed text_area of the Challenge exercise
    now,                \* the wall clock read by datetime.now()
    run,                \* what the last script run did: the content functions it
                        \* called and the exception that ended it ("" when none)
    input,           \* the provider outcome a content function is applied to on its
                        \* own (SpecParse, SpecScore); Unused in the other specifications
    returned,           \* what the function applied to input returned; Unused before
    tally               \* counted by the observer: since the last reset_quiz, the answers
                        \* handle_answer completed whose choice was correct_side, whether
                        \* handle_answer raised, and the questions advanced by NEXT
                        \* QUESTION; since the last CLEAR HISTORY, the grading actions of
                        \* the free analysis; the provider that was selected when the
                        \* stored key was typed into the key field ("" while no key is
                        \* stored)

vars == <<session_state, user_prompt_input, now, run, input, returned, tally>>

-----------------------------------------------------------------------------
(* Python values *)

None == [py |-> "None"]
PyStr(s) == [str |-> s]
PyBool(b) == [bool |-> b]
PyInt(n) == [int |-> n]
PyDict(d) == [dict |-> d]

\* the one-unit strings of lesson_selected and correct_side
Lesson(l) == PyStr(<<l>>)

Side(c) == PyStr(<<c>>)

IsStr(v) == DOMAIN v = {"str"}
IsDict(v) == DOMAIN v = {"dict"}
IsInt(v) == DOMAIN v = {"int"}

\* bool(v) for the values the session holds
Truthy(v) ==
    CASE v = None -> FALSE
      [] IsStr(v) -> v.str # <<>>
      [] IsDict(v) -> DOMAIN v.dict # {}
      [] IsInt(v) -> v.int # 0
      [] OTHER -> v.bool

\* v[key] succeeds (v is a dict that has the key)
HasKey(v, key) == IsDict(v) /\ key \in DOMAIN v.dict

-----------------------------------------------------------------------------
(* Configuration & constants *)

QUIZ_LENGTH == 10

HISTORY_LIMIT == 10

PROMPT_PREVIEW == 200

API_PROVIDERS == {"OpenAI", "Gemini", "Claude"}

DEMO_AB_QUESTION ==
    PyDict([scenario |-> "demo scenario", weak_prompt |-> "demo weak",
            strong_prompt |-> "demo strong", explanation |-> "demo explanation"])

DEMO_CHALLENGE ==
    PyDict([title |-> "demo title", scenario |-> "demo challenge scenario",
            ideal_prompt |-> "demo ideal", key_elements |-> "demo elements"])

\* "...| Clarity | 4/5 |... **TOTAL: 13/20** ..."
DEMO_GRADING_RESULT ==
    <<"x", "4", "/", "5", "x", "TOTAL:", " ", "1", "3", "/", "2", "0", "*", "x">>

\* "...| Clarity | 3/5 |... **TOTAL: 11/20** ..."
DEMO_GENERAL_GRADING_RESULT ==
    <<"x", "3", "/", "5", "x", "TOTAL:", " ", "1", "1", "/", "2", "0", "*", "x">>

-----------------------------------------------------------------------------
(* Text *)

Whitespace == {" ", "\n"}

Digits == {"0", "1", "2", "3", "4", "5", "6", "7", "8", "9"}

DigitValue(c) ==
    CASE c = "0" -> 0 [] c = "1" -> 1 [] c = "2" -> 2 [] c = "3" -> 3
      [] c = "4" -> 4 [] c = "5" -> 5 [] c = "6" -> 6 [] c = "7" -> 7
      [] c = "8" -> 8 [] c = "9" -> 9

\* s[i:] with i counted from 0
From(s, i) == SubSeq(s, i + 1, Len(s))

\* s[:i]
UpTo(s, i) == SubSeq(s, 1, IF i < Len(s) THEN i ELSE Len(s))

RECURSIVE LStrip(_)
LStrip(s) == IF s # <<>> /\ Head(s) \in Whitespace THEN LStrip(Tail(s)) ELSE s

RECURSIVE RStrip(_)
RStrip(s) ==
    IF s # <<>> /\ s[Len(s)] \in Whitespace THEN RStrip(SubSeq(s, 1, Len(s) - 1)) ELSE s

\* str.strip()
Strip(s) == RStrip(LStrip(s))

\* s.startswith(unit)
StartsWith(s, unit) == s # <<>> /\ Head(s) = unit

\* sep in s
Contains(s, sep) == \E i \in 1..Len(s) : s[i] = sep

\* s.find(sep), 1-based, 0 when absent
Find(s, sep) ==
    IF Contains(s, sep) THEN CHOOSE i \in 1..Len(s) : s[i] = sep /\ \A j \in 1..(i - 1) : s[j] # sep
    ELSE 0

\* s.split(sep)[0]
SplitFirst(s, sep) == IF Contains(s, sep) THEN SubSeq(s, 1, Find(s, sep) - 1) ELSE s

\* s.split(sep)[1], for s that contains sep
SplitSecond(s, sep) == SplitFirst(From(s, Find(s, sep)), sep)

\* the units str.isdigit accepts: the decimal digits, and digits such as the
\* superscript two, which int() rejects
IsDigit == Digits \cup {"<sup2>"}

\* ''.join(filter(str.isdigit, s))
RECURSIVE FilterDigits(_)
FilterDigits(s) ==
    IF s = <<>> THEN <<>>
    ELSE IF Head(s) \in IsDigit THEN <<Head(s)>> \o FilterDigits(Tail(s))
    ELSE FilterDigits(Tail(s))

\* int(s) raises ValueError
IntFails(s) == s = <<>> \/ \E i \in 1..Len(s) : s[i] \notin Digits

\* int(s) for a non-empty string of decimal digits
RECURSIVE ParseInt(_)
ParseInt(s) ==
    IF s = <<>> THEN 0 ELSE 10 * ParseInt(SubSeq(s, 1, Len(s) - 1)) + DigitValue(s[Len(s)])

-----------------------------------------------------------------------------
(* JSON documents a provider response can hold, and json.loads *)

JsonDocs == {"{AB}", "{AB-explanation}", "{CH}", "{}", "null"}

\* an AB document that holds three backticks inside its strong_prompt string
FencedAB == <<"{AB[", "<fence>", "]}">>

\* the units that cannot stand inside a JSON string: the raw newline (a
\* control character) and the units that hold a quotation mark
JsonStringBreakers == {"\n", "{AB}", "{AB-explanation}", "{CH}", "{AB[", "]}"}

\* s is the AB document split inside its strong_prompt string, "{AB[" up to
\* the middle of the string and "]}" from there, with units between the two
\* halves that a JSON string may hold (none, three backticks, ...)
IsSplitAB(s) ==
    /\ Len(s) >= 2
    /\ s[1] = "{AB["
    /\ s[Len(s)] = "]}"
    /\ \A i \in 2..(Len(s) - 1) : s[i] \notin JsonStringBreakers

\* the units of s as one str
RECURSIVE Join(_)
Join(s) == IF s = <<>> THEN "" ELSE Head(s) \o Join(Tail(s))

\* the value of a split AB document: what stands between the halves is part
\* of its strong_prompt
SplitABValue(s) ==
    PyDict([scenario |-> "llm scenario", weak_prompt |-> "llm weak",
            strong_prompt |-> "llm strong with fence:"
                              \o Join(SubSeq(s, 2, Len(s) - 1)) \o ".",
            explanation |-> "llm explanation"])

FencedABValue == SplitABValue(FencedAB)

JsonValue(doc) ==
    CASE doc = "{AB}" ->
            PyDict([scenario |-> "llm scenario", weak_prompt |-> "llm weak",
                    strong_prompt |-> "llm strong", explanation |-> "llm explanation"])
      [] doc = "{AB-explanation}" ->
            PyDict([scenario |-> "llm scenario", weak_prompt |-> "llm weak",
                    strong_prompt |-> "llm strong"])
      [] doc = "{CH}" ->
            PyDict([title |-> "llm title", scenario |-> "llm challenge scenario",
                    ideal_prompt |-> "llm ideal", key_elements |-> "llm elements"])
      [] doc = "{}" -> PyDict(<<>>)
      [] doc = "null" -> None

\* a JSON number: digits without a leading zero
IsJsonNumber(s) ==
    /\ s # <<>>
    /\ \A i \in 1..Len(s) : s[i] \in Digits
    /\ (Len(s) = 1 \/ s[1] # "0")

\* json.loads(s) does not raise JSONDecodeError
JsonParses(s) ==
    \/ Len(Strip(s)) = 1 /\ Strip(s)[1] \in JsonDocs
    \/ IsSplitAB(Strip(s))
    \/ IsJsonNumber(Strip(s))

JsonLoads(s) ==
    IF IsJsonNumber(Strip(s)) THEN PyInt(ParseInt(Strip(s)))
    ELSE IF IsSplitAB(Strip(s)) THEN SplitABValue(Strip(s))
    ELSE JsonValue(Strip(s)[1])

-----------------------------------------------------------------------------
(* Function results: a value, or an exception that leaves the function *)

Unused == [unused |-> TRUE]

Return(v) == [value |-> v]

Raise(e) == [exception |-> e]

Raises(r) == DOMAIN r = {"exception"}

-----------------------------------------------------------------------------
(* API integration *)

\* What the provider's client does with one request: it answers with text,
\* it answers with no content (OpenAI: message.content is None), or it fails.
TextReply(t) == [reply |-> t]

NoContent == [nocontent |-> TRUE]

Failure(cause) == [failure |-> cause]

\* the exception swallowed without the error text
call_llm_drops_failure(outcome) ==
    CASE DOMAIN outcome = {"reply"} -> PyStr(outcome.reply)
      [] DOMAIN outcome = {"nocontent"} -> None
      [] DOMAIN outcome = {"failure"} -> None

\* call_llm: the reply's text; any exception becomes the text "Error: <cause>"
call_llm(outcome) ==
    CASE DOMAIN outcome = {"reply"} -> PyStr(outcome.reply)
      [] DOMAIN outcome = {"nocontent"} -> None
      [] DOMAIN outcome = {"failure"} -> PyStr(<<"Error: ", outcome.failure>>)

\* the record of one call of a content function: its name, and whether it
\* sent a request to the provider (through call_llm, which it calls unless
\* it runs in demo mode), with the provider and key call_llm reads
Calls(ss, function) ==
    <<[function |-> function, request |-> ~ss.demo_mode,
       provider |-> ss.api_provider, api_key |-> ss.api_key]>>

\* the clean-up of generate_ab_question / generate_challenge before json.loads
CleanResponse(text) ==
    LET stripped == Strip(text)
        inner == SplitSecond(stripped, "<fence>")
        unfenced ==
            IF StartsWith(stripped, "<fence>")
            THEN (IF StartsWith(inner, "json") THEN From(inner, 1) ELSE inner)
            ELSE stripped
    IN  Strip(unfenced)

\* the try block shared by the two generators, with its fallback record
ParseOrFallback(response, fallback) ==
    IF ~IsStr(response) THEN Raise("AttributeError")
    ELSE IF JsonParses(CleanResponse(response.str))
         THEN Return(JsonLoads(CleanResponse(response.str)))
         ELSE Return(fallback)

generate_ab_question(ss, outcome) ==
    IF ss.demo_mode THEN Return(DEMO_AB_QUESTION)
    ELSE ParseOrFallback(call_llm(outcome), DEMO_AB_QUESTION)

generate_challenge(ss, outcome) ==
    IF ss.demo_mode THEN Return(DEMO_CHALLENGE)
    ELSE ParseOrFallback(call_llm(outcome), DEMO_CHALLENGE)

\* the demo check forgotten
grade_prompt_always_calls(ss, user_prompt, scenario, outcome) == call_llm(outcome)

grade_prompt(ss, user_prompt, scenario, outcome) ==
    IF ss.demo_mode THEN PyStr(DEMO_GRADING_RESULT) ELSE call_llm(outcome)

\* the Challenge's demo report returned for the free analysis
grade_general_prompt_challenge_report(ss, user_prompt, outcome) ==
    IF ss.demo_mode THEN PyStr(DEMO_GRADING_RESULT) ELSE call_llm(outcome)

grade_general_prompt(ss, user_prompt, outcome) ==
    IF ss.demo_mode THEN PyStr(DEMO_GENERAL_GRADING_RESULT) ELSE call_llm(outcome)

\* the ValueError of int() left uncaught for an empty digit string
ExtractScore_zero_when_empty(result) ==
    IF ~IsStr(result) THEN None
    ELSE IF ~Contains(result.str, "TOTAL:") THEN None
    ELSE LET score_part == Strip(SplitFirst(SplitSecond(result.str, "TOTAL:"), "/"))
             digits == FilterDigits(score_part)
         IN  IF digits # <<>> /\ IntFails(digits) THEN None ELSE PyInt(ParseInt(digits))

\* the score extraction of render_module2 / render_module3 (its bare except
\* swallows the TypeError of a None report and the ValueError of int())
ExtractScore(result) ==
    IF ~IsStr(result) THEN None
    ELSE IF ~Contains(result.str, "TOTAL:") THEN None
    ELSE LET score_part == Strip(SplitFirst(SplitSecond(result.str, "TOTAL:"), "/"))
             digits == FilterDigits(score_part)
         IN  IF IntFails(digits) THEN None ELSE PyInt(ParseInt(digits))

-----------------------------------------------------------------------------
(* Session state *)

init_session_state ==
    [ api_key |-> "",
      api_provider |-> "OpenAI",
      demo_mode |-> FALSE,
      api_validated |-> FALSE,
      lesson_selected |-> None,
      quiz_score |-> 0,
      quiz_index |-> 0,
      module_unlocked |-> FALSE,
      show_feedback |-> FALSE,
      last_choice_correct |-> None,
      last_explanation |-> "",
      current_question |-> None,
      correct_side |-> None,
      challenge_scenario |-> None,
      challenge_result |-> None,
      challenge_graded |-> FALSE,
      grade_my_prompt_result |-> None,
      grade_my_prompt_graded |-> FALSE,
      analysis_history |-> <<>> ]

-----------------------------------------------------------------------------
(* Quiz logic *)

\* handle_answer raises KeyError at its second statement when the stored
\* question has no "explanation"
handle_answer_raises(ss) == ~HasKey(ss.current_question, "explanation")

\* the score incremented whatever the choice
handle_answer_always_scores(ss, choice) ==
    LET correct == (Side(choice) = ss.correct_side)
        s1 == [ss EXCEPT !.last_choice_correct = PyBool(correct)]
    IN  IF handle_answer_raises(ss) THEN s1
        ELSE [s1 EXCEPT !.last_explanation = ss.current_question.dict.explanation,
                        !.quiz_score = @ + 1,
                        !.show_feedback = TRUE]

\* a correct choice counted twice
handle_answer_scores_twice(ss, choice) ==
    LET correct == (Side(choice) = ss.correct_side)
        s1 == [ss EXCEPT !.last_choice_correct = PyBool(correct)]
    IN  IF handle_answer_raises(ss) THEN s1
        ELSE [s1 EXCEPT !.last_explanation = ss.current_question.dict.explanation,
                        !.quiz_score = IF correct THEN @ + 2 ELSE @,
                        !.show_feedback = TRUE]

\* the index advanced with the answer
handle_answer_advances(ss, choice) ==
    LET correct == (Side(choice) = ss.correct_side)
        s1 == [ss EXCEPT !.last_choice_correct = PyBool(correct)]
    IN  IF handle_answer_raises(ss) THEN s1
        ELSE [s1 EXCEPT !.last_explanation = ss.current_question.dict.explanation,
                        !.quiz_score = IF correct THEN @ + 1 ELSE @,
                        !.quiz_index = @ + 1,
                        !.show_feedback = TRUE]

handle_answer(ss, choice) ==
    LET correct == (Side(choice) = ss.correct_side)
        s1 == [ss EXCEPT !.last_choice_correct = PyBool(correct)]
    IN  IF handle_answer_raises(ss) THEN s1
        ELSE [s1 EXCEPT !.last_explanation = ss.current_question.dict.explanation,
                        !.quiz_score = IF correct THEN @ + 1 ELSE @,
                        !.show_feedback = TRUE]

\* the index advanced by two
advance_quiz_skips(ss) ==
    LET s1 == [ss EXCEPT !.quiz_index = @ + 2,
                         !.show_feedback = FALSE,
                         !.last_choice_correct = None,
                         !.last_explanation = "",
                         !.current_question = None,
                         !.correct_side = None]
    IN  IF s1.quiz_index >= QUIZ_LENGTH THEN [s1 EXCEPT !.module_unlocked = TRUE] ELSE s1

\* the unlock forgotten at the end of the quiz
advance_quiz_never_unlocks(ss) ==
    [ss EXCEPT !.quiz_index = @ + 1,
               !.show_feedback = FALSE,
               !.last_choice_correct = None,
               !.last_explanation = "",
               !.current_question = None,
               !.correct_side = None]

advance_quiz(ss) ==
    LET s1 == [ss EXCEPT !.quiz_index = @ + 1,
                         !.show_feedback = FALSE,
                         !.last_choice_correct = None,
                         !.last_explanation = "",
                         !.current_question = None,
                         !.correct_side = None]
    IN  IF s1.quiz_index >= QUIZ_LENGTH THEN [s1 EXCEPT !.module_unlocked = TRUE] ELSE s1

\* the score left in place
reset_quiz_keeps_score(ss) ==
    [ss EXCEPT !.quiz_index = 0,
               !.module_unlocked = FALSE,
               !.show_feedback = FALSE,
               !.last_choice_correct = None,
               !.last_explanation = "",
               !.current_question = None,
               !.correct_side = None]

reset_quiz(ss) ==
    [ss EXCEPT !.quiz_score = 0,
               !.quiz_index = 0,
               !.module_unlocked = FALSE,
               !.show_feedback = FALSE,
               !.last_choice_correct = None,
               !.last_explanation = "",
               !.current_question = None,
               !.correct_side = None]

-----------------------------------------------------------------------------
(* One script run.  An event e carries what the widgets return in the run: *)
(* e.provider (radio), e.demo_mode (checkbox), e.api_key (the text typed   *)
(* into the key field, None when it was not edited), e.button (the button  *)
(* that was clicked, "" when none), and the inputs of the handlers:        *)
(* e.connection, e.outcome (what the provider does), e.side (what          *)
(* random.choice draws), e.user_prompt (the form's text area), e.index     *)
(* (the history row of VIEW), e.challenge_prompt (the Challenge text       *)
(* area), e.now (datetime.now()), e.interrupted (another widget event      *)
(* arrived while the Connect handler waited for the connection test, so    *)
(* the script runner ends the run at the handler's next element call).     *)
(* A run yields the session state it leaves, the content functions it     *)
(* called, the exception that ended it ("" when none), whether it asked    *)
(* for a rerun, whether the script runner ended it at an element call, and *)
(* whether it reached the clicked button (st.button returned True for it:  *)
(* the button is rendered and enabled).                                    *)

\* the run handled the click
Done(ss, calls, exception, rerun) ==
    [ss |-> ss, calls |-> calls, exception |-> exception, rerun |-> rerun,
     stopped |-> FALSE, handled |-> TRUE]

\* the run rendered to its end and no handler ran
Idle(ss) ==
    [ss |-> ss, calls |-> <<>>, exception |-> "", rerun |-> FALSE,
     stopped |-> FALSE, handled |-> FALSE]

\* rendering raised before any handler ran
Broken(ss, exception) ==
    [ss |-> ss, calls |-> <<>>, exception |-> exception, rerun |-> FALSE,
     stopped |-> FALSE, handled |-> FALSE]

\* the script runner ended the run inside the clicked button's handler, at an
\* element call made while another widget event was waiting
Stopped(ss) ==
    [ss |-> ss, calls |-> <<>>, exception |-> "", rerun |-> FALSE,
     stopped |-> TRUE, handled |-> TRUE]

\* test_api_connection: True only when the provider accepted the test request
test_api_connection(connection) == connection = "connected"

\* the key left in place
select_provider_keeps_key(ss, provider) ==
    IF provider # ss.api_provider
    THEN [ss EXCEPT !.api_provider = provider, !.api_validated = FALSE]
    ELSE [ss EXCEPT !.api_provider = provider]

\* render_sidebar: provider radio
select_provider(ss, provider) ==
    IF provider # ss.api_provider
    THEN [ss EXCEPT !.api_provider = provider, !.api_validated = FALSE, !.api_key = ""]
    ELSE [ss EXCEPT !.api_provider = provider]

\* render_sidebar: demo mode checkbox (the caller reruns)
set_demo_mode(ss, demo_mode) ==
    [ss EXCEPT !.demo_mode = demo_mode, !.api_validated = demo_mode]

\* an edited key leaving the validation in place
store_api_key_keeps_validation(ss, api_key) ==
    IF api_key # ss.api_key THEN [ss EXCEPT !.api_key = api_key] ELSE ss

\* render_sidebar: key field
store_api_key(ss, api_key) ==
    IF api_key # ss.api_key
    THEN [ss EXCEPT !.api_key = api_key, !.api_validated = IF @ THEN FALSE ELSE @]
    ELSE ss

\* render_sidebar: Connect button.  The handler waits for the test, shows its
\* message (st.success, st.error) and then writes; a run that another widget
\* event interrupted during the wait ends at the message, before the write.
connect(ss, api_key, connection, interrupted) ==
    IF api_key # "" /\ ~interrupted
    THEN IF test_api_connection(connection)
         THEN [ss EXCEPT !.api_validated = TRUE, !.api_key = api_key]
         ELSE [ss EXCEPT !.api_validated = FALSE]
    ELSE ss

\* the Challenge state left in place
switch_mode_keeps_challenge(ss) ==
    [reset_quiz(ss) EXCEPT !.lesson_selected = None,
                           !.grade_my_prompt_result = None,
                           !.grade_my_prompt_graded = FALSE]

\* the history cleared with the exercises
switch_mode_clears_history(ss) ==
    [reset_quiz(ss) EXCEPT !.lesson_selected = None,
                           !.challenge_scenario = None,
                           !.challenge_result = None,
                           !.challenge_graded = FALSE,
                           !.grade_my_prompt_result = None,
                           !.grade_my_prompt_graded = FALSE,
                           !.analysis_history = <<>>]

\* render_sidebar: SWITCH MODE button
switch_mode(ss) ==
    [reset_quiz(ss) EXCEPT !.lesson_selected = None,
                           !.challenge_scenario = None,
                           !.challenge_result = None,
                           !.challenge_graded = FALSE,
                           !.grade_my_prompt_result = None,
                           !.grade_my_prompt_graded = FALSE]

ResetShown(ss) ==
    /\ ss.lesson_selected = Lesson("compare")
    /\ (ss.quiz_index > 0 \/ Truthy(ss.current_question))

render_sidebar(ss, e) ==
    LET s1 == select_provider(ss, e.provider)
        api_key == IF e.api_key = None THEN s1.api_key ELSE e.api_key.str
        s2 == store_api_key(s1, api_key)
        connecting == ~s1.demo_mode /\ e.button = "Connect"
        s3 == IF s1.demo_mode THEN s1
              ELSE IF connecting
                   THEN connect(s2, api_key, e.connection, e.interrupted)
              ELSE s2
    IN  IF e.demo_mode # s1.demo_mode
        THEN [Idle(set_demo_mode(s1, e.demo_mode)) EXCEPT !.rerun = TRUE]
        ELSE IF Truthy(s3.lesson_selected) /\ e.button = "SWITCH MODE"
             THEN Done(switch_mode(s3), <<>>, "", TRUE)
        ELSE IF ResetShown(s3) /\ e.button = "RESET"
             THEN Done(reset_quiz(s3), <<>>, "", TRUE)
        ELSE IF connecting
             THEN IF e.interrupted THEN Stopped(s3) ELSE Done(s3, <<>>, "", FALSE)
        ELSE Idle(s3)

-----------------------------------------------------------------------------
(* Compare exercise *)

\* question["scenario"], ["strong_prompt"], ["weak_prompt"] all succeed
QuestionDisplays(q) ==
    HasKey(q, "scenario") /\ HasKey(q, "strong_prompt") /\ HasKey(q, "weak_prompt")

\* option A showing the strong prompt whatever the side drawn
option_a_always_strong(ss) == ss.current_question.dict.strong_prompt

\* the prompt shown as option A / option B
option_a(ss) ==
    IF ss.correct_side = Side("A") THEN ss.current_question.dict.strong_prompt
    ELSE ss.current_question.dict.weak_prompt

option_b(ss) ==
    IF ss.correct_side = Side("A") THEN ss.current_question.dict.weak_prompt
    ELSE ss.current_question.dict.strong_prompt

\* the completion check forgotten
quiz_complete_never(ss) == FALSE

\* the completion check off by one
quiz_complete_off_by_one(ss) == ss.quiz_index > QUIZ_LENGTH

\* render_module1: "Check if quiz is complete"
quiz_complete(ss) == ss.quiz_index >= QUIZ_LENGTH

\* st.progress raises for a value above 1.0
\* the side drawn and stored before the question is requested
on_generate_question_side_first(ss, e) ==
    LET question == generate_ab_question(ss, e.outcome)
        calls == Calls(ss, "generate_ab_question")
        s1 == [ss EXCEPT !.correct_side = Side(e.side)]
    IN  IF Raises(question) THEN Done(s1, calls, question.exception, FALSE)
        ELSE Done([s1 EXCEPT !.current_question = question.value], calls, "", TRUE)

\* render_module1: the GENERATE QUESTION button's block
on_generate_question(ss, e) ==
    LET question == generate_ab_question(ss, e.outcome)
        calls == Calls(ss, "generate_ab_question")
    IN  IF Raises(question) THEN Done(ss, calls, question.exception, FALSE)
        ELSE Done([ss EXCEPT !.current_question = question.value,
                             !.correct_side = Side(e.side)], calls, "", TRUE)

render_module1(ss, e) ==
    IF ss.quiz_index > QUIZ_LENGTH THEN Broken(ss, "StreamlitAPIException")
    ELSE IF quiz_complete(ss) THEN
        IF e.button = "RETAKE" THEN Done(reset_quiz(ss), <<>>, "", TRUE)
        ELSE IF e.button = "TRY CHALLENGE MODE"
             THEN Done([ss EXCEPT !.lesson_selected = Lesson("challenge")], <<>>, "", TRUE)
        ELSE Idle(ss)
    ELSE IF ss.current_question = None THEN
        IF e.button = "GENERATE QUESTION" THEN on_generate_question(ss, e) ELSE Idle(ss)
    ELSE IF ~QuestionDisplays(ss.current_question)
         THEN Broken(ss, IF IsDict(ss.current_question) THEN "KeyError" ELSE "TypeError")
    ELSE IF ~ss.show_feedback THEN
        IF e.button \in {"SELECT A", "SELECT B"}
        THEN LET choice == IF e.button = "SELECT A" THEN "A" ELSE "B"
             IN  IF handle_answer_raises(ss)
                 THEN Done(handle_answer(ss, choice), <<>>, "KeyError", FALSE)
                 ELSE Done(handle_answer(ss, choice), <<>>, "", TRUE)
        ELSE Idle(ss)
    ELSE IF e.button = "NEXT QUESTION" THEN Done(advance_quiz(ss), <<>>, "", TRUE)
    ELSE Idle(ss)

-----------------------------------------------------------------------------
(* Challenge exercise *)

\* challenge['title'] and challenge["scenario"] succeed
ChallengeDisplays(c) == HasKey(c, "title") /\ HasKey(c, "scenario")

\* resubmission left enabled after grading
submit_disabled_while_empty(ss, user_prompt) == user_prompt = <<>>

\* render_module2: submit_disabled = not user_prompt or challenge_graded
submit_disabled(ss, user_prompt) == user_prompt = <<>> \/ ss.challenge_graded

\* NEXT CHALLENGE left enabled before grading
next_disabled_never(ss) == FALSE

\* render_module2: next_disabled = not challenge_graded
next_disabled(ss) == ~ss.challenge_graded

render_module2(ss, e) ==
    IF ~ss.api_validated THEN Idle(ss)
    ELSE IF ss.challenge_scenario = None THEN
        IF e.button = "GENERATE CHALLENGE"
        THEN LET challenge == generate_challenge(ss, e.outcome)
                 calls == Calls(ss, "generate_challenge")
             IN  IF Raises(challenge) THEN Done(ss, calls, challenge.exception, FALSE)
                 ELSE Done([ss EXCEPT !.challenge_scenario = challenge.value,
                                      !.challenge_result = None,
                                      !.challenge_graded = FALSE], calls, "", TRUE)
        ELSE Idle(ss)
    ELSE IF ~ChallengeDisplays(ss.challenge_scenario)
         THEN Broken(ss, IF IsDict(ss.challenge_scenario) THEN "KeyError" ELSE "TypeError")
    ELSE LET user_prompt == e.challenge_prompt
         IN  IF e.button = "SUBMIT FOR GRADING" /\ ~submit_disabled(ss, user_prompt)
             THEN LET result == grade_prompt(ss, user_prompt,
                                             ss.challenge_scenario.dict.scenario, e.outcome)
                  IN  Done([ss EXCEPT !.challenge_result = result,
                                      !.challenge_graded = TRUE],
                           Calls(ss, "grade_prompt"), "", TRUE)
             ELSE IF e.button = "NEXT CHALLENGE" /\ ~next_disabled(ss)
             THEN Done([ss EXCEPT !.challenge_scenario = None,
                                  !.challenge_result = None,
                                  !.challenge_graded = FALSE], <<>>, "", TRUE)
             ELSE Idle(ss)

-----------------------------------------------------------------------------
(* Free analysis exercise *)

\* user_prompt[:200] + "..." if len(user_prompt) > 200 else user_prompt
\* the cut made from 200 characters on
TruncatePrompt_from_limit(user_prompt) ==
    IF Len(user_prompt) >= PROMPT_PREVIEW
    THEN UpTo(user_prompt, PROMPT_PREVIEW) \o <<".", ".", ".">>
    ELSE user_prompt

TruncatePrompt(user_prompt) ==
    IF Len(user_prompt) > PROMPT_PREVIEW
    THEN UpTo(user_prompt, PROMPT_PREVIEW) \o <<".", ".", ".">>
    ELSE user_prompt

\* datetime.now().strftime("%H:%M:%S"), the clock counted in seconds
strftime(t) == <<(t \div 3600) % 24, (t \div 60) % 60, t % 60>>

history_entry(user_prompt, result, t) ==
    [ prompt |-> TruncatePrompt(user_prompt),
      full_prompt |-> user_prompt,
      result |-> result,
      score |-> ExtractScore(result),
      timestamp |-> strftime(t) ]

\* the entry appended at the end before the cut
add_to_history_at_end(history, entry) == UpTo(history \o <<entry>>, HISTORY_LIMIT)

\* the entry kept only when a score was extracted
add_to_history_if_scored(history, entry) ==
    IF entry.score = None THEN history ELSE UpTo(<<entry>> \o history, HISTORY_LIMIT)

\* analysis_history.insert(0, entry); analysis_history = analysis_history[:10]
add_to_history(history, entry) == UpTo(<<entry>> \o history, HISTORY_LIMIT)

\* the viewed entry moved to the front of the history
view_history_moves_to_front(ss, index) ==
    [ss EXCEPT !.grade_my_prompt_result = ss.analysis_history[index].result,
               !.grade_my_prompt_graded = TRUE,
               !.analysis_history =
                   <<ss.analysis_history[index]>>
                   \o SelectSeq([i \in 1..Len(ss.analysis_history) |->
                                    IF i = index THEN None ELSE ss.analysis_history[i]],
                                LAMBDA x : x # None)]

\* render_module3: the VIEW button's block for the entry at index (from 1)
view_history(ss, index) ==
    [ss EXCEPT !.grade_my_prompt_result = ss.analysis_history[index].result,
               !.grade_my_prompt_graded = TRUE]

\* an empty prompt analysed like any other
prompt_entered_always(user_prompt) == TRUE

\* render_module3: "if submitted and user_prompt", a non-empty str being true
prompt_entered(user_prompt) == user_prompt # <<>>

\* the form left in place after grading
render_module3_form_always(ss, e) ==
    IF ~ss.api_validated THEN Idle(ss)
    ELSE IF e.button = "ANALYZE" /\ e.user_prompt # <<>>
    THEN LET result == grade_general_prompt(ss, e.user_prompt, e.outcome)
         IN  Done([ss EXCEPT !.grade_my_prompt_result = result,
                             !.grade_my_prompt_graded = TRUE,
                             !.analysis_history =
                                 add_to_history(@, history_entry(e.user_prompt, result, e.now))],
                  Calls(ss, "grade_general_prompt"), "", TRUE)
    ELSE IF ss.grade_my_prompt_graded /\ e.button = "NEW ANALYSIS"
    THEN Done([ss EXCEPT !.grade_my_prompt_result = None,
                         !.grade_my_prompt_graded = FALSE], <<>>, "", TRUE)
    ELSE IF e.button = "VIEW" /\ e.index \in 1..Len(ss.analysis_history)
    THEN Done([ss EXCEPT !.grade_my_prompt_result = ss.analysis_history[e.index].result,
                         !.grade_my_prompt_graded = TRUE], <<>>, "", TRUE)
    ELSE IF e.button = "CLEAR HISTORY" /\ ss.analysis_history # <<>>
    THEN Done([ss EXCEPT !.analysis_history = <<>>], <<>>, "", TRUE)
    ELSE IF e.button = "ANALYZE"
    THEN Done(ss, <<>>, "", FALSE)
    ELSE Idle(ss)

render_module3(ss, e) ==
    IF ~ss.api_validated THEN Idle(ss)
    ELSE IF ~ss.grade_my_prompt_graded /\ e.button = "ANALYZE" /\ prompt_entered(e.user_prompt)
    THEN LET result == grade_general_prompt(ss, e.user_prompt, e.outcome)
         IN  Done([ss EXCEPT !.grade_my_prompt_result = result,
                             !.grade_my_prompt_graded = TRUE,
                             !.analysis_history =
                                 add_to_history(@, history_entry(e.user_prompt, result, e.now))],
                  Calls(ss, "grade_general_prompt"), "", TRUE)
    ELSE IF ss.grade_my_prompt_graded /\ e.button = "NEW ANALYSIS"
    THEN Done([ss EXCEPT !.grade_my_prompt_result = None,
                         !.grade_my_prompt_graded = FALSE], <<>>, "", TRUE)
    ELSE IF e.button = "VIEW" /\ e.index \in 1..Len(ss.analysis_history)
    THEN Done(view_history(ss, e.index), <<>>, "", TRUE)
    ELSE IF e.button = "CLEAR HISTORY" /\ ss.analysis_history # <<>>
    THEN Done([ss EXCEPT !.analysis_history = <<>>], <<>>, "", TRUE)
    ELSE IF ~ss.grade_my_prompt_graded /\ e.button = "ANALYZE"
    THEN Done(ss, <<>>, "", FALSE)
    ELSE Idle(ss)

-----------------------------------------------------------------------------
(* Main content and the script *)

render_lesson_selection(ss, e) ==
    CASE e.button = "START TRAINING" ->
            Done([ss EXCEPT !.lesson_selected = Lesson("compare")], <<>>, "", TRUE)
      [] e.button = "ACCEPT CHALLENGE" ->
            Done([ss EXCEPT !.lesson_selected = Lesson("challenge")], <<>>, "", TRUE)
      [] e.button = "ANALYZE PROMPT" ->
            Done([ss EXCEPT !.lesson_selected = Lesson("grade")], <<>>, "", TRUE)
      [] OTHER -> Idle(ss)

\* the exercises rendered without the validation check
render_main_content_ungated(ss, e) ==
    IF ss.lesson_selected = None THEN render_lesson_selection(ss, e)
    ELSE IF ss.lesson_selected = Lesson("compare") THEN render_module1(ss, e)
    ELSE IF ss.lesson_selected = Lesson("challenge") THEN render_module2(ss, e)
    ELSE IF ss.lesson_selected = Lesson("grade") THEN render_module3(ss, e)
    ELSE Idle(ss)

render_main_content(ss, e) ==
    IF ~ss.api_validated THEN Idle(ss)
    ELSE IF ss.lesson_selected = None THEN render_lesson_selection(ss, e)
    ELSE IF ss.lesson_selected = Lesson("compare") THEN render_module1(ss, e)
    ELSE IF ss.lesson_selected = Lesson("challenge") THEN render_module2(ss, e)
    ELSE IF ss.lesson_selected = Lesson("grade") THEN render_module3(ss, e)
    ELSE Idle(ss)

\* main(): the sidebar, then the main content unless the sidebar asked for a rerun
after_sidebar(sidebar, e) ==
    IF sidebar.rerun \/ sidebar.stopped THEN sidebar
    ELSE [render_main_content(sidebar.ss, e)
            EXCEPT !.calls = sidebar.calls \o @, !.handled = sidebar.handled \/ @]

main(ss, e) == after_sidebar(render_sidebar(ss, e), e)

\* the run with no widget touched: what the rerun after st.rerun() executes
Untouched(ss, e) ==
    [e EXCEPT !.provider = ss.api_provider, !.demo_mode = ss.demo_mode,
              !.api_key = None, !.button = ""]

\* one script run and, when it asks for one, the rerun that follows it
rerun(first, e) ==
    IF first.rerun
    THEN [main(first.ss, Untouched(first.ss, e))
            EXCEPT !.calls = first.calls \o @, !.handled = first.handled]
    ELSE first

script(ss, e) == rerun(main(ss, e), e)

\* the Challenge exercise's text area is rendered
ChallengeInputShown(ss) ==
    /\ ss.api_validated
    /\ ss.lesson_selected = Lesson("challenge")
    /\ ss.challenge_scenario # None
    /\ ChallengeDisplays(ss.challenge_scenario)

-----------------------------------------------------------------------------
(* Inputs *)

MaxAnalyses == 1

MaxDeepAnalyses == 11

MaxProviderGraded == 1

ApiKeys == {"", "key-1"}

ConnectionOutcomes == {"connected", "auth_error", "failure"}

GenerationReplies ==
    { <<"{AB}">>,
      <<"<fence>", "json", "\n", "{AB}", "\n", "<fence>">>,
      <<"{AB-explanation}">>,
      <<"{CH}">>,
      <<"{}">>,
      <<"null">>,
      <<"x">> }

GradingReplies ==
    { <<"x", "TOTAL:", " ", "1", "7", "/", "2", "0", "x">>,
      <<"x">> }

UserPrompts == {<<>>, <<"p">>}

\* why a request fails: the provider rejects the key, or anything else
FailureCauses == {"authentication", "cause"}

\* what the selected provider can do with a request
ProviderOutcomes(provider, replies) ==
    {TextReply(t) : t \in replies}
    \cup {Failure(cause) : cause \in FailureCauses}
    \cup (IF provider = "OpenAI" THEN {NoContent} ELSE {})

-----------------------------------------------------------------------------
(* Events *)

Base ==
    [ provider |-> session_state.api_provider,
      demo_mode |-> session_state.demo_mode,
      api_key |-> None,
      button |-> "",
      connection |-> "failure",
      interrupted |-> FALSE,
      outcome |-> NoContent,
      side |-> "A",
      user_prompt |-> <<>>,
      index |-> 0,
      challenge_prompt |-> user_prompt_input,
      now |-> now ]

\* the observer's counts after the run of event e from state ss with result r
Observe(t, ss, e, r) ==
    [ correct_answers |->
        IF e.button \in {"RESET", "RETAKE", "SWITCH MODE"} THEN 0
        ELSE IF /\ e.button \in {"SELECT A", "SELECT B"}
                /\ r.exception = ""
                /\ ss.correct_side = Side(IF e.button = "SELECT A" THEN "A" ELSE "B")
             THEN t.correct_answers + 1
        ELSE t.correct_answers,
      raised |->
        IF e.button \in {"RESET", "RETAKE", "SWITCH MODE"} THEN FALSE
        ELSE IF e.button \in {"SELECT A", "SELECT B"} /\ r.exception # "" THEN TRUE
        ELSE t.raised,
      key_provider |->
        IF r.ss.api_key = "" THEN ""
        ELSE IF e.api_key # None THEN e.provider
        ELSE t.key_provider,
      advanced |->
        IF e.button \in {"RESET", "RETAKE", "SWITCH MODE"} THEN 0
        ELSE IF e.button = "NEXT QUESTION" THEN t.advanced + 1
        ELSE t.advanced,
      analyses |->
        IF e.button = "CLEAR HISTORY" THEN 0
        ELSE IF e.button = "ANALYZE" /\ e.user_prompt # <<>> THEN t.analyses + 1
        ELSE t.analyses ]

\* the state after the run of event e with result r
Finish(e, r) ==
    /\ r.handled = (e.button # "")
    /\ session_state' = r.ss
    /\ run' = [calls |-> r.calls, exception |-> r.exception]
    /\ user_prompt_input' = IF r.stopped THEN user_prompt_input
                            ELSE IF ChallengeInputShown(r.ss) THEN e.challenge_prompt
                            ELSE <<>>
    /\ tally' = Observe(tally, session_state, e, r)

Step(e) ==
    /\ Finish(e, script(session_state, e))
    /\ UNCHANGED <<input, returned>>

SelectProvider(provider) ==
    /\ ~session_state.demo_mode
    /\ provider # session_state.api_provider
    /\ Step([Base EXCEPT !.provider = provider])
    /\ UNCHANGED now

ToggleDemoMode ==
    /\ Step([Base EXCEPT !.demo_mode = ~session_state.demo_mode])
    /\ UNCHANGED now

EditApiKey(api_key) ==
    /\ ~session_state.demo_mode
    /\ api_key # session_state.api_key
    /\ Step([Base EXCEPT !.api_key = PyStr(api_key)])
    /\ UNCHANGED now

Connect(connection, interrupted) ==
    /\ Step([Base EXCEPT !.button = "Connect", !.connection = connection,
                         !.interrupted = interrupted])
    /\ UNCHANGED now

SwitchMode ==
    /\ Step([Base EXCEPT !.button = "SWITCH MODE"])
    /\ UNCHANGED now

Reset ==
    /\ Step([Base EXCEPT !.button = "RESET"])
    /\ UNCHANGED now

StartLesson(button) ==
    /\ button \in {"START TRAINING", "ACCEPT CHALLENGE", "ANALYZE PROMPT"}
    /\ Step([Base EXCEPT !.button = button])
    /\ UNCHANGED now

Retake ==
    /\ Step([Base EXCEPT !.button = "RETAKE"])
    /\ UNCHANGED now

TryChallengeMode ==
    /\ Step([Base EXCEPT !.button = "TRY CHALLENGE MODE"])
    /\ UNCHANGED now

GenerateQuestion(outcome, side) ==
    /\ Step([Base EXCEPT !.button = "GENERATE QUESTION", !.outcome = outcome, !.side = side])
    /\ UNCHANGED now

SelectOption(button) ==
    /\ button \in {"SELECT A", "SELECT B"}
    /\ Step([Base EXCEPT !.button = button])
    /\ UNCHANGED now

NextQuestion ==
    /\ Step([Base EXCEPT !.button = "NEXT QUESTION"])
    /\ UNCHANGED now

GenerateChallenge(outcome) ==
    /\ Step([Base EXCEPT !.button = "GENERATE CHALLENGE", !.outcome = outcome])
    /\ UNCHANGED now

EditChallengePrompt(user_prompt) ==
    /\ ChallengeInputShown(session_state)
    /\ user_prompt # user_prompt_input
    /\ Step([Base EXCEPT !.challenge_prompt = user_prompt])
    /\ UNCHANGED now

SubmitForGrading(outcome) ==
    /\ Step([Base EXCEPT !.button = "SUBMIT FOR GRADING", !.outcome = outcome])
    /\ UNCHANGED now

NextChallenge ==
    /\ Step([Base EXCEPT !.button = "NEXT CHALLENGE"])
    /\ UNCHANGED now

Analyze(user_prompt, outcome) ==
    /\ Step([Base EXCEPT !.button = "ANALYZE", !.user_prompt = user_prompt,
                         !.outcome = outcome])
    /\ now' = IF user_prompt # <<>> THEN now + 1 ELSE now

NewAnalysis ==
    /\ Step([Base EXCEPT !.button = "NEW ANALYSIS"])
    /\ UNCHANGED now

ViewHistory(index) ==
    /\ Step([Base EXCEPT !.button = "VIEW", !.index = index])
    /\ UNCHANGED now

ClearHistory ==
    /\ Step([Base EXCEPT !.button = "CLEAR HISTORY"])
    /\ UNCHANGED now

-----------------------------------------------------------------------------
(* Specification *)

Init ==
    /\ session_state = init_session_state
    /\ user_prompt_input = <<>>
    /\ now = 0
    /\ run = [calls |-> <<>>, exception |-> ""]
    /\ tally = [correct_answers |-> 0, raised |-> FALSE, key_provider |-> "",
                advanced |-> 0, analyses |-> 0]
    /\ input = Unused
    /\ returned = Unused

Sidebar ==
    \/ \E provider \in API_PROVIDERS : SelectProvider(provider)
    \/ ToggleDemoMode
    \/ \E api_key \in ApiKeys : EditApiKey(api_key)
    \/ \E connection \in ConnectionOutcomes, interrupted \in BOOLEAN :
            Connect(connection, interrupted)
    \/ SwitchMode
    \/ Reset

Compare ==
    \/ Retake
    \/ TryChallengeMode
    \/ \E outcome \in ProviderOutcomes(session_state.api_provider, GenerationReplies),
          side \in {"A", "B"} : GenerateQuestion(outcome, side)
    \/ \E button \in {"SELECT A", "SELECT B"} : SelectOption(button)
    \/ NextQuestion

Challenge ==
    \/ \E outcome \in ProviderOutcomes(session_state.api_provider, GenerationReplies) :
          GenerateChallenge(outcome)
    \/ \E user_prompt \in UserPrompts : EditChallengePrompt(user_prompt)
    \/ \E outcome \in ProviderOutcomes(session_state.api_provider, GradingReplies) :
          SubmitForGrading(outcome)
    \/ NextChallenge

\* Spec drives the free analysis with one provider outcome (a failed call)
\* and MaxAnalyses analyses; SpecAnalysis below explores it in depth.
FreeAnalysis ==
    \/ \E user_prompt \in UserPrompts :
          now < MaxAnalyses /\ Analyze(user_prompt, Failure("cause"))
    \/ NewAnalysis
    \/ \E index \in 1..HISTORY_LIMIT : ViewHistory(index)
    \/ ClearHistory

Next ==
    \/ Sidebar
    \/ \E button \in {"START TRAINING", "ACCEPT CHALLENGE", "ANALYZE PROMPT"} : StartLesson(button)
    \/ Compare
    \/ Challenge
    \/ FreeAnalysis

Spec == Init /\ [][Next]_vars

-----------------------------------------------------------------------------
(* The free analysis in depth: the sidebar actions that open the exercise, *)
(* every provider outcome, and MaxDeepAnalyses analyses (more than the     *)
(* history holds).  At most MaxProviderGraded of the entries the history   *)
(* holds at a time were graded by the provider; the others were graded in  *)
(* demo mode.                                                              *)

ProviderGraded(history) ==
    Cardinality({i \in 1..Len(history) :
                    history[i].result # PyStr(DEMO_GENERAL_GRADING_RESULT)})

DeepAnalyze ==
    \E user_prompt \in UserPrompts,
       outcome \in ProviderOutcomes(session_state.api_provider, GradingReplies) :
        /\ now < MaxDeepAnalyses
        /\ \/ session_state.demo_mode
           \/ ProviderGraded(session_state.analysis_history) < MaxProviderGraded
        /\ Analyze(user_prompt, outcome)

NextAnalysis ==
    \/ ToggleDemoMode
    \/ \E api_key \in ApiKeys : EditApiKey(api_key)
    \/ \E connection \in ConnectionOutcomes, interrupted \in BOOLEAN :
            Connect(connection, interrupted)
    \/ SwitchMode
    \/ StartLesson("ANALYZE PROMPT")
    \/ DeepAnalyze
    \/ NewAnalysis
    \/ \E index \in 1..HISTORY_LIMIT : ViewHistory(index)
    \/ ClearHistory

SpecAnalysis == Init /\ [][NextAnalysis]_vars

-----------------------------------------------------------------------------
(* The generators on their own: a session that is connected to a provider  *)
(* or runs in demo mode, one provider outcome drawn from the responses     *)
(* below, and the two generators applied to it.                            *)

MaxBodyLen == 2

BodyUnits == JsonDocs \cup {"{AB[", "]}", "<fence>", "json", "\n", " ", "x", "7", "Error: "}

\* the sequences over S of length n
RECURSIVE SeqsOfLen(_, _)
SeqsOfLen(S, n) ==
    IF n = 0 THEN {<<>>}
    ELSE {<<x>> \o t : x \in S, t \in SeqsOfLen(S, n - 1)}

Bodies == UNION {SeqsOfLen(BodyUnits, n) : n \in 0..MaxBodyLen} \cup {FencedAB}

\* a body as it is, padded, and inside a fence with or without the json tag
Wrappings(body) ==
    { body,
      <<"\n", " ">> \o body \o <<" ", "\n">>,
      <<"<fence>">> \o body \o <<"<fence>">>,
      <<"<fence>", "json">> \o body \o <<"<fence>">>,
      <<"<fence>", "json", "\n">> \o body \o <<"\n", "<fence>">>,
      <<"<fence>", "\n">> \o body \o <<"\n", "<fence>", "\n", "x">> }

ResponseTexts == UNION {Wrappings(body) : body \in Bodies}

GeneratorOutcomes == {TextReply(t) : t \in ResponseTexts} \cup {Failure("cause"), NoContent}

\* a session after a successful Connect, and a session in demo mode
ConnectedSession == [init_session_state EXCEPT !.api_key = "key-1", !.api_validated = TRUE]

DemoSession == [init_session_state EXCEPT !.demo_mode = TRUE, !.api_validated = TRUE]

InitParse ==
    /\ session_state \in {ConnectedSession, DemoSession}
    /\ user_prompt_input = <<>>
    /\ now = 0
    /\ run = [calls |-> <<>>, exception |-> ""]
    /\ tally = [correct_answers |-> 0, raised |-> FALSE,
                key_provider |-> IF session_state.api_key = "" THEN "" ELSE "OpenAI",
                advanced |-> 0, analyses |-> 0]
    /\ input \in GeneratorOutcomes
    /\ returned = Unused

CallGenerateAbQuestion ==
    /\ returned' = [function |-> "generate_ab_question",
                    result |-> generate_ab_question(session_state, input)]
    /\ UNCHANGED <<session_state, user_prompt_input, now, run, input, tally>>

CallGenerateChallenge ==
    /\ returned' = [function |-> "generate_challenge",
                    result |-> generate_challenge(session_state, input)]
    /\ UNCHANGED <<session_state, user_prompt_input, now, run, input, tally>>

NextParse ==
    \/ CallGenerateAbQuestion
    \/ CallGenerateChallenge

SpecParse == InitParse /\ [][NextParse]_vars

-----------------------------------------------------------------------------
(* The score extraction on its own: a connected session in the Challenge   *)
(* exercise with a prompt entered, or in the free analysis, one provider   *)
(* outcome drawn from the reports below, and the extraction and the two    *)
(* grading handlers applied to it.                                         *)

MaxReportLen == 4

ReportUnits == {"TOTAL:", "/", " ", "1", "3", "x", "<sup2>"}

ReportTexts == UNION {SeqsOfLen(ReportUnits, n) : n \in 0..MaxReportLen}

ReportOutcomes == {TextReply(t) : t \in ReportTexts} \cup {Failure("cause"), NoContent}

\* a connected session with a generated scenario shown
ChallengeSession ==
    [ConnectedSession EXCEPT !.lesson_selected = Lesson("challenge"),
                             !.challenge_scenario = JsonValue("{CH}")]

\* a connected session in the free analysis
AnalysisSession == [ConnectedSession EXCEPT !.lesson_selected = Lesson("grade")]

InitScore ==
    /\ \/ session_state = ChallengeSession /\ user_prompt_input = <<"p">>
       \/ session_state = AnalysisSession /\ user_prompt_input = <<>>
    /\ now = 0
    /\ run = [calls |-> <<>>, exception |-> ""]
    /\ tally = [correct_answers |-> 0, raised |-> FALSE, key_provider |-> "OpenAI",
                advanced |-> 0, analyses |-> 0]
    /\ input \in ReportOutcomes
    /\ returned = Unused

CallExtractScore ==
    /\ returned' = [function |-> "extract_score", result |-> ExtractScore(call_llm(input))]
    /\ UNCHANGED <<session_state, user_prompt_input, now, run, input, tally>>

NextScore ==
    \/ CallExtractScore
    \/ SubmitForGrading(input)
    \/ Analyze(<<"p">>, input)

SpecScore == InitScore /\ [][NextScore]_vars

-----------------------------------------------------------------------------
(* The history entry on its own: a session in the free analysis, connected *)
(* or in demo mode, a prompt of up to MaxPromptLen characters and a         *)
(* provider outcome drawn, and the truncation and ANALYZE applied to them.  *)

MaxPromptLen == 203

\* n characters "a" and then the character last
PromptOf(n, last) == [i \in 1..(n + 1) |-> IF i <= n THEN "a" ELSE last]

LongPrompts == {PromptOf(n, last) : n \in 0..(MaxPromptLen - 1), last \in {"a", "b"}}

InitEntry ==
    /\ session_state \in {AnalysisSession,
                          [DemoSession EXCEPT !.lesson_selected = Lesson("grade")]}
    /\ user_prompt_input = <<>>
    /\ now = 0
    /\ run = [calls |-> <<>>, exception |-> ""]
    /\ tally = [correct_answers |-> 0, raised |-> FALSE,
                key_provider |-> IF session_state.api_key = "" THEN "" ELSE "OpenAI",
                advanced |-> 0, analyses |-> 0]
    /\ input \in [prompt : LongPrompts,
                  outcome : {TextReply(<<"x">>), Failure("cause")}]
    /\ returned = Unused

CallTruncatePrompt ==
    /\ returned' = [function |-> "truncate_prompt", result |-> TruncatePrompt(input.prompt)]
    /\ UNCHANGED <<session_state, user_prompt_input, now, run, input, tally>>

NextEntry ==
    \/ CallTruncatePrompt
    \/ Analyze(input.prompt, input.outcome)

SpecEntry == InitEntry /\ [][NextEntry]_vars

-----------------------------------------------------------------------------
(* The credential on its own: the sidebar's settings and the lesson        *)
(* selection from the start of the program, with the key and the provider  *)
(* of the last successful connection test kept in returned.                *)

\* Connect, the test made with the key in the field and the selected provider
\* (a test that succeeded is recorded whether or not the run reached the write)
TestedConnect(connection, interrupted) ==
    /\ Finish([Base EXCEPT !.button = "Connect", !.connection = connection,
                           !.interrupted = interrupted],
              script(session_state,
                     [Base EXCEPT !.button = "Connect", !.connection = connection,
                                  !.interrupted = interrupted]))
    /\ returned' = IF session_state.api_key # "" /\ test_api_connection(connection)
                   THEN [api_key |-> session_state.api_key,
                         provider |-> session_state.api_provider]
                   ELSE returned
    /\ UNCHANGED <<now, input>>

\* the keys typed into the field
CredentialKeys == ApiKeys \cup {"key-2"}

NextCredential ==
    \/ \E provider \in API_PROVIDERS : SelectProvider(provider)
    \/ ToggleDemoMode
    \/ \E api_key \in CredentialKeys : EditApiKey(api_key)
    \/ \E connection \in ConnectionOutcomes, interrupted \in BOOLEAN :
            TestedConnect(connection, interrupted)
    \/ \E button \in {"START TRAINING", "ACCEPT CHALLENGE", "ANALYZE PROMPT"} : StartLesson(button)
    \/ SwitchMode

SpecCredential == Init /\ [][NextCredential]_vars

-----------------------------------------------------------------------------
(* Properties *)

\* the content functions the last run called
Called(r, function) == \E i \in 1..Len(r.calls) : r.calls[i].function = function

\* quiz_score, quiz_index, module_unlocked
QuizProgress(ss) == <<ss.quiz_score, ss.quiz_index, ss.module_unlocked>>

\* the eight keys reset_quiz writes
QuizState(ss) ==
    <<ss.quiz_score, ss.quiz_index, ss.module_unlocked, ss.show_feedback,
      ss.last_choice_correct, ss.last_explanation, ss.current_question, ss.correct_side>>

QuizStateInitial == QuizState(init_session_state)

\* C1: answering a shown question sets last_choice_correct to (choice =
\* correct_side) and adds exactly 1 to quiz_score iff the choice is correct,
\* and quiz_score only ever grows by 1, in a step that takes the question
\* from show_feedback false to show_feedback true (once per question).
C1_AnswerScoresOnce ==
    [][ /\ \A button \in {"SELECT A", "SELECT B"} :
              SelectOption(button) =>
                  LET choice == IF button = "SELECT A" THEN "A" ELSE "B"
                      correct == (Side(choice) = session_state.correct_side)
                  IN  /\ session_state'.last_choice_correct = PyBool(correct)
                      /\ session_state'.quiz_score =
                             session_state.quiz_score + (IF correct THEN 1 ELSE 0)
        /\ session_state'.quiz_score > session_state.quiz_score =>
              /\ session_state'.quiz_score = session_state.quiz_score + 1
              /\ ~session_state.show_feedback
              /\ session_state'.show_feedback
              /\ session_state'.current_question = session_state.current_question
      ]_vars

\* C2: when QUIZ_LENGTH questions have been advanced since the last reset,
\* every answer was taken without an exception, quiz_score is the number of
\* answers whose choice was correct_side, quiz_index is QUIZ_LENGTH and
\* module_unlocked is true.
C2_FinalScore ==
    tally.advanced = QUIZ_LENGTH =>
        /\ ~tally.raised
        /\ session_state.quiz_score = tally.correct_answers
        /\ session_state.quiz_index = QUIZ_LENGTH
        /\ session_state.module_unlocked

C2_Witness ==
    /\ tally.advanced = QUIZ_LENGTH
    /\ tally.correct_answers = 7
    /\ session_state.quiz_score = 7

\* C3: from a state with quiz_index = QUIZ_LENGTH every step either is
\* RETAKE, RESET or SWITCH MODE and resets quiz_score, quiz_index and
\* module_unlocked, or leaves the three unchanged, calls no
\* generate_ab_question, stores no question, takes no answer and does not
\* advance.
C3_CompleteIsTerminal ==
    [][ session_state.quiz_index = QUIZ_LENGTH =>
          \/ /\ Retake \/ Reset \/ SwitchMode
             /\ QuizProgress(session_state') = <<0, 0, FALSE>>
          \/ /\ QuizProgress(session_state') = QuizProgress(session_state)
             /\ ~Called(run', "generate_ab_question")
             /\ session_state'.current_question = None
             /\ session_state'.correct_side = None
             /\ session_state'.last_choice_correct = None
             /\ ~session_state'.show_feedback
      ]_vars

C3_Witness ==
    /\ session_state.quiz_index = QUIZ_LENGTH
    /\ session_state.quiz_score = 7
    /\ session_state.lesson_selected = Lesson("compare")
    /\ session_state.api_provider = "Gemini"
    /\ ~session_state.api_validated

\* C4: in every reachable state quiz_score is an integer >= 0 and quiz_index
\* is an integer in 0..QUIZ_LENGTH.
C4_ScoreAndIndexInRange ==
    /\ session_state.quiz_score \in Nat
    /\ session_state.quiz_index \in 0..QUIZ_LENGTH

C4_Witness ==
    /\ session_state.quiz_index = QUIZ_LENGTH
    /\ session_state.quiz_score = 0
    /\ tally.advanced = QUIZ_LENGTH

\* the Challenge exercise holds a scenario that has not been graded
Ungraded(ss) == ss.challenge_scenario # None /\ ~ss.challenge_graded

\* C5: a run calls grade_prompt only from a state with a scenario and
\* challenge_graded false; while challenge_graded is true and the scenario
\* stays, no run calls grade_prompt or changes challenge_result or
\* challenge_graded; and the exercise enters Ungraded only from no scenario,
\* in a run that calls generate_challenge.
C5_OneGradePerScenario ==
    [][ /\ Called(run', "grade_prompt") => Ungraded(session_state)
        /\ ( /\ session_state.challenge_graded
             /\ session_state'.challenge_scenario = session_state.challenge_scenario ) =>
              /\ ~Called(run', "grade_prompt")
              /\ session_state'.challenge_result = session_state.challenge_result
              /\ session_state'.challenge_graded
        /\ (Ungraded(session_state') /\ ~Ungraded(session_state)) =>
              /\ session_state.challenge_scenario = None
              /\ Called(run', "generate_challenge")
      ]_vars

C5_Witness ==
    /\ session_state.challenge_graded
    /\ session_state.challenge_scenario # None
    /\ session_state.challenge_result = PyStr(<<"Error: ", "cause">>)
    /\ user_prompt_input = <<>>
    /\ run.calls = <<>>

Min(a, b) == IF a < b THEN a ELSE b

\* C6: analysis_history never holds more than HISTORY_LIMIT (10) entries;
\* a grading action puts its entry first, keeps the entries that were there
\* in their order behind it, and drops exactly the last one when there were
\* already 10.
C6_HistoryNewestFirstBounded ==
    /\ [](Len(session_state.analysis_history) <= HISTORY_LIMIT)
    /\ [][ tally'.analyses = tally.analyses + 1 =>
             LET old == session_state.analysis_history
                 new == session_state'.analysis_history
             IN  /\ Len(new) = Min(Len(old) + 1, HISTORY_LIMIT)
                 /\ new[1].timestamp = strftime(now)
                 /\ new[1].result = session_state'.grade_my_prompt_result
                 /\ \A i \in 1..(Len(new) - 1) : new[i + 1] = old[i]
         ]_vars

C6_Witness ==
    /\ Len(session_state.analysis_history) = HISTORY_LIMIT
    /\ session_state.analysis_history[1].timestamp = strftime(HISTORY_LIMIT)
    /\ session_state.analysis_history[HISTORY_LIMIT].timestamp = strftime(1)

\* C7: after n grading actions of the free analysis (ANALYZE with a
\* non-empty prompt) since the last CLEAR HISTORY, whatever the grading call
\* returned, analysis_history holds min(n, 10) entries.
C7_OneEntryPerAnalysis ==
    Len(session_state.analysis_history) = Min(tally.analyses, HISTORY_LIMIT)

C7_Witness ==
    /\ tally.analyses = HISTORY_LIMIT + 1
    /\ Len(session_state.analysis_history) = HISTORY_LIMIT
    /\ session_state.analysis_history[1].result = PyStr(<<"Error: ", "cause">>)
    /\ session_state.analysis_history[1].score = None

\* challenge_scenario, challenge_result, challenge_graded,
\* grade_my_prompt_result, grade_my_prompt_graded
TransientState(ss) ==
    <<ss.challenge_scenario, ss.challenge_result, ss.challenge_graded,
      ss.grade_my_prompt_result, ss.grade_my_prompt_graded>>

TransientStateInitial == TransientState(init_session_state)

\* C8 as stated: SWITCH MODE and TRY CHALLENGE MODE both reset the quiz
\* state to its initial values and clear the Challenge and free-analysis
\* state, leaving analysis_history unchanged.
C8_EverySwitchResets ==
    [][ (SwitchMode \/ TryChallengeMode) =>
          /\ QuizState(session_state') = QuizStateInitial
          /\ TransientState(session_state') = TransientStateInitial
          /\ session_state'.analysis_history = session_state.analysis_history
      ]_vars

\* C8 as amended: SWITCH MODE resets the quiz state to its initial values,
\* clears the Challenge and free-analysis state and leaves analysis_history
\* unchanged; TRY CHALLENGE MODE changes nothing but lesson_selected, which
\* becomes "challenge".
C8_SwitchModeResets ==
    [][ /\ SwitchMode =>
              /\ QuizState(session_state') = QuizStateInitial
              /\ TransientState(session_state') = TransientStateInitial
              /\ session_state'.lesson_selected = None
              /\ session_state'.analysis_history = session_state.analysis_history
        /\ TryChallengeMode =>
              session_state' = [session_state EXCEPT !.lesson_selected = Lesson("challenge")]
      ]_vars

C8_Witness ==
    /\ session_state.lesson_selected = Lesson("challenge")
    /\ session_state.quiz_index = QUIZ_LENGTH
    /\ session_state.quiz_score = 7
    /\ session_state.module_unlocked

\* the step changes the provider, or changes demo mode leaving the session
\* not validated
Invalidates ==
    \/ session_state'.api_provider # session_state.api_provider
    \/ /\ session_state'.demo_mode # session_state.demo_mode
       /\ ~session_state'.api_validated

\* C9 as stated: an explicit reset, a provider change and a demo-mode
\* change that invalidates the session each reset the quiz state to its
\* initial values.
C9_InvalidationResetsQuiz ==
    [][ (Reset \/ Retake \/ SwitchMode \/ Invalidates) =>
          QuizState(session_state') = QuizStateInitial
      ]_vars

\* C9 as amended: RESET, RETAKE and SWITCH MODE reset the quiz state to its
\* initial values; a provider change or a demo-mode change leaves the quiz
\* state unchanged.
C9_OnlyExplicitResetResetsQuiz ==
    [][ /\ (Reset \/ Retake \/ SwitchMode) => QuizState(session_state') = QuizStateInitial
        /\ ( \/ session_state'.api_provider # session_state.api_provider
             \/ session_state'.demo_mode # session_state.demo_mode ) =>
              QuizState(session_state') = QuizState(session_state)
      ]_vars

C9_Witness ==
    /\ session_state.api_provider = "Claude"
    /\ session_state.api_key = ""
    /\ ~session_state.api_validated
    /\ session_state.quiz_index = 3
    /\ session_state.quiz_score = 2
    /\ session_state.current_question # None

\* C10: a step that changes api_provider leaves api_validated false and
\* api_key empty; a stored key was typed while the current provider was
\* selected, and every request a content function sent in the last run went
\* to the provider the key it used was typed for.
C10_ProviderChangeClearsKey ==
    /\ [][ session_state'.api_provider # session_state.api_provider =>
             /\ ~session_state'.api_validated
             /\ session_state'.api_key = ""
         ]_vars
    /\ [](session_state.api_key # "" => tally.key_provider = session_state.api_provider)
    /\ [](\A i \in 1..Len(run.calls) :
             run.calls[i].request =>
                 /\ run.calls[i].api_key # ""
                 /\ run.calls[i].provider = tally.key_provider)

C10_Witness ==
    /\ session_state.api_provider = "Gemini"
    /\ session_state.api_key = "key-1"
    /\ session_state.api_validated
    /\ tally.key_provider = "Gemini"
    /\ Called(run, "grade_prompt")

-----------------------------------------------------------------------------
(* The generators and their fallback (SpecParse) *)

AB_FIELDS == {"scenario", "weak_prompt", "strong_prompt", "explanation"}

CHALLENGE_FIELDS == {"title", "scenario", "ideal_prompt", "key_elements"}

HasFields(v, fields) == IsDict(v) /\ DOMAIN v.dict = fields

\* the generator has been applied to the drawn outcome with a provider request
Generated(function) ==
    /\ returned # Unused
    /\ returned.function = function
    /\ ~session_state.demo_mode

\* the outcome is a reply text without a fence that is not JSON
NotJson(outcome) ==
    /\ DOMAIN outcome = {"reply"}
    /\ ~Contains(outcome.reply, "<fence>")
    /\ ~JsonParses(outcome.reply)

\* the outcome is a reply text that is one JSON document, without a fence,
\* whose value is not an object with exactly the fields
WrongFieldSet(outcome, fields) ==
    /\ DOMAIN outcome = {"reply"}
    /\ JsonParses(outcome.reply)
    /\ ~HasFields(JsonLoads(outcome.reply), fields)

\* the outcome reaches the generator as the text "Error: <cause>"
ErrorText(outcome) == DOMAIN outcome = {"failure"}

BadResponse(outcome, fields) ==
    NotJson(outcome) \/ ErrorText(outcome) \/ WrongFieldSet(outcome, fields)

\* C11: a response that is not JSON, is a provider error text, or is JSON with
\* the wrong field set for the requested kind makes generate_ab_question return
\* exactly DEMO_AB_QUESTION and generate_challenge exactly DEMO_CHALLENGE.
C11_FallbackOnBadResponse ==
    /\ (Generated("generate_ab_question") /\ BadResponse(input, AB_FIELDS))
          => returned.result = Return(DEMO_AB_QUESTION)
    /\ (Generated("generate_challenge") /\ BadResponse(input, CHALLENGE_FIELDS))
          => returned.result = Return(DEMO_CHALLENGE)

\* the part of C11 the code does meet: text that json.loads rejects, and the
\* provider error text, are replaced by the demo record
C11_FallbackOnParseFailure ==
    /\ (Generated("generate_ab_question") /\ (NotJson(input) \/ ErrorText(input)))
          => returned.result = Return(DEMO_AB_QUESTION)
    /\ (Generated("generate_challenge") /\ (NotJson(input) \/ ErrorText(input)))
          => returned.result = Return(DEMO_CHALLENGE)

\* C12: the generators are total: whatever the provider call returns (valid
\* JSON, malformed text, the text "Error: <cause>", empty or absent content),
\* they return a record and raise nothing to their caller.
C12_GeneratorsTotal ==
    (returned # Unused) =>
        /\ ~Raises(returned.result)
        /\ IsDict(returned.result.value)

\* the texts that hold the document bare, padded, or inside a fence with an
\* optional json tag
WellFormed(doc) ==
    { doc,
      <<"\n", " ">> \o doc \o <<" ", "\n">>,
      <<"<fence>">> \o doc \o <<"<fence>">>,
      <<"<fence>", "json">> \o doc \o <<"<fence>">>,
      <<"<fence>", "json", "\n">> \o doc \o <<"\n", "<fence>">> }

\* the generator was applied to a reply that holds the AB document
ParsedFrom(doc) ==
    /\ Generated("generate_ab_question")
    /\ DOMAIN input = {"reply"}
    /\ input.reply \in WellFormed(doc)

\* C13: a well-formed response matching the AB schema, bare or wrapped in a
\* fence with an optional json tag, makes generate_ab_question return the
\* parsed record with the response's four field values, not the fallback.
C13_WellFormedIsParsed ==
    \A doc \in {<<"{AB}">>, FencedAB} :
        ParsedFrom(doc) => returned.result = Return(JsonLoads(doc))

\* the part of C13 the code does meet: a document without three backticks
\* inside it
C13_PlainDocumentIsParsed ==
    \A doc \in {<<"{AB}">>, <<"{AB[", "]}">>} :
        ParsedFrom(doc) => returned.result = Return(JsonLoads(doc))

-----------------------------------------------------------------------------
(* Demo mode *)

\* what the run's caller stored of the content function's result
Stored(ss, function) ==
    CASE function = "generate_ab_question" -> ss.current_question
      [] function = "generate_challenge" -> ss.challenge_scenario
      [] function = "grade_prompt" -> ss.challenge_result
      [] function = "grade_general_prompt" -> ss.grade_my_prompt_result

DemoContent(function) ==
    CASE function = "generate_ab_question" -> DEMO_AB_QUESTION
      [] function = "generate_challenge" -> DEMO_CHALLENGE
      [] function = "grade_prompt" -> PyStr(DEMO_GRADING_RESULT)
      [] function = "grade_general_prompt" -> PyStr(DEMO_GENERAL_GRADING_RESULT)

\* the Connect button, which sends the test request, can be clicked
ConnectShown(ss) == script(ss, [Base EXCEPT !.button = "Connect"]).handled

\* C14: while demo_mode is true no user action results in a provider call:
\* the four content functions send no request and return DEMO_AB_QUESTION,
\* DEMO_CHALLENGE, DEMO_GRADING_RESULT and DEMO_GENERAL_GRADING_RESULT whatever
\* the provider would have answered, and the Connect button is not offered.
C14_DemoModeNeverCalls ==
    /\ [](session_state.demo_mode => ~ConnectShown(session_state))
    /\ [][session_state'.demo_mode =>
            \A i \in 1..Len(run'.calls) :
                /\ ~run'.calls[i].request
                /\ run'.exception = ""
                /\ Stored(session_state', run'.calls[i].function)
                      = DemoContent(run'.calls[i].function)]_vars

C14_Witness ==
    /\ session_state.demo_mode
    /\ Called(run, "grade_prompt")
    /\ session_state.challenge_result = PyStr(DEMO_GRADING_RESULT)
    /\ session_state.challenge_scenario = DEMO_CHALLENGE

-----------------------------------------------------------------------------
(* Score extraction (SpecScore) *)

\* the substring after the first "TOTAL:" up to the next "/" (to the end of
\* the text when no "/" follows), for a text that contains "TOTAL:"
AfterTotal(text) == SplitFirst(From(text, Find(text, "TOTAL:")), "/")

Occurrences(text, unit) == Cardinality({i \in 1..Len(text) : text[i] = unit})

\* the drawn outcome is a report text
IsReport == DOMAIN input = {"reply"}

\* the score extraction comes to no score for the report text
ScoreMiss(text) ==
    \/ ~Contains(text, "TOTAL:")
    \/ /\ Contains(text, "TOTAL:")
       /\ FilterDigits(AfterTotal(text)) = <<>>
    \/ /\ Occurrences(text, "TOTAL:") = 1
       /\ IntFails(FilterDigits(AfterTotal(text)))

Extracted == returned # Unused /\ returned.function = "extract_score"

\* the report of the Challenge grading as the results section displays it
ChallengeReportShown(ss) ==
    IF Truthy(ss.challenge_result) THEN ss.challenge_result.str ELSE <<>>

\* C15: score extraction never raises: for every report it yields an integer
\* or absent, and absent when "TOTAL:" does not occur, when the digit-filtered
\* substring is empty or when integer parsing fails; in these cases the raw
\* report is still stored (Challenge report, free-analysis report and history
\* entry, with the graded flags set) and shown.
C15_ScoreExtractionNeverRaises ==
    /\ Extracted =>
          /\ returned.result = None \/ IsInt(returned.result)
          /\ (IsReport /\ ScoreMiss(input.reply)) => returned.result = None
    /\ (IsReport /\ ScoreMiss(input.reply) /\ run.exception = "") =>
          /\ Called(run, "grade_prompt") =>
                /\ session_state.challenge_result = PyStr(input.reply)
                /\ session_state.challenge_graded
                /\ ChallengeReportShown(session_state) = input.reply
          /\ Called(run, "grade_general_prompt") =>
                /\ session_state.grade_my_prompt_result = PyStr(input.reply)
                /\ session_state.grade_my_prompt_graded
                /\ session_state.analysis_history[1].result = PyStr(input.reply)
                /\ session_state.analysis_history[1].score = None
                /\ input.reply # <<>> => Truthy(session_state.grade_my_prompt_result)
    /\ run.exception = ""

C15_Witness ==
    /\ Extracted
    /\ IsReport
    /\ Contains(input.reply, "TOTAL:")
    /\ FilterDigits(AfterTotal(input.reply)) = <<>>
    /\ returned.result = None
    /\ Called(run, "grade_general_prompt")
    /\ session_state.analysis_history[1].score = None

\* C16: for every report that contains "TOTAL:", the extracted score is the
\* integer formed by the decimal digits, in their order, of the substring
\* from right after the first "TOTAL:" to just before the next "/" (to the
\* end when no "/" follows), also when "TOTAL:" occurs more than once.
C16_ScoreIsDigitsAfterFirstTotal ==
    (/\ Extracted
     /\ IsReport
     /\ Contains(input.reply, "TOTAL:")
     /\ ~IntFails(FilterDigits(AfterTotal(input.reply))))
        => returned.result = PyInt(ParseInt(FilterDigits(AfterTotal(input.reply))))

\* the part of C16 the code does meet: reports in which "TOTAL:" occurs once
C16_ScoreWithOneTotal ==
    (/\ Extracted
     /\ IsReport
     /\ Occurrences(input.reply, "TOTAL:") = 1
     /\ ~IntFails(FilterDigits(AfterTotal(input.reply))))
        => returned.result = PyInt(ParseInt(FilterDigits(AfterTotal(input.reply))))

-----------------------------------------------------------------------------
(* Provider failures *)

\* the provider call of the run failed
ProviderFailed == DOMAIN input = {"failure"}

ErrorReport == PyStr(<<"Error: ", input.failure>>)

\* C17: when the provider call fails during grading nothing is raised: the
\* report becomes the text "Error: <cause>" and the exercise still becomes
\* Graded (challenge_result holds the text and challenge_graded is true;
\* grade_my_prompt_result holds it, grade_my_prompt_graded is true and a
\* history entry with that text is added).
C17_FailedGradingStillGrades ==
    ProviderFailed =>
        /\ run.exception = ""
        /\ Called(run, "grade_prompt") =>
              /\ session_state.challenge_result = ErrorReport
              /\ session_state.challenge_graded
        /\ Called(run, "grade_general_prompt") =>
              /\ session_state.grade_my_prompt_result = ErrorReport
              /\ session_state.grade_my_prompt_graded
              /\ Len(session_state.analysis_history) = 1
              /\ session_state.analysis_history[1].result = ErrorReport

C17_Witness ==
    /\ ProviderFailed
    /\ Called(run, "grade_general_prompt")
    /\ session_state.grade_my_prompt_graded
    /\ session_state.analysis_history[1].result = PyStr(<<"Error: ", "cause">>)

\* the same for the Challenge exercise
C17_ChallengeGraded ==
    /\ ProviderFailed
    /\ Called(run, "grade_prompt")
    /\ session_state.challenge_graded
    /\ session_state.challenge_result = PyStr(<<"Error: ", "cause">>)

-----------------------------------------------------------------------------
(* Rejected credentials *)

\* quiz, Challenge, free-analysis state and history
ExerciseState(ss) == <<QuizState(ss), TransientState(ss), ss.analysis_history>>

\* the Connect test is made with the stored key and the provider rejects it
ConnectRejected(interrupted) ==
    /\ ~session_state.demo_mode
    /\ session_state.api_key # ""
    /\ Connect("auth_error", interrupted)

AuthenticationFailure == Failure("authentication")

\* a generation or grading request is made and the provider rejects the key
RequestRejected ==
    /\ ~session_state.demo_mode
    /\ session_state.api_validated
    /\ \/ \E side \in {"A", "B"} : GenerateQuestion(AuthenticationFailure, side)
       \/ GenerateChallenge(AuthenticationFailure)
       \/ SubmitForGrading(AuthenticationFailure)
       \/ Analyze(<<"p">>, AuthenticationFailure)

\* C18: whenever the provider rejects authentication, during the Connect
\* test or during a generation or grading call, api_validated is forced to
\* false and no exercise state changes.
C18_RejectionInvalidates ==
    [][ ((\E interrupted \in BOOLEAN : ConnectRejected(interrupted)) \/ RequestRejected) =>
          /\ ~session_state'.api_validated
          /\ ExerciseState(session_state') = ExerciseState(session_state)
      ]_vars

\* the Connect half of C18 alone: a rejected Connect test leaves api_validated
\* false (violated by the run that ends at st.error, before the write)
C18_ConnectTestInvalidates ==
    [][ (\E interrupted \in BOOLEAN : ConnectRejected(interrupted)) =>
          ~session_state'.api_validated ]_vars

\* what the code does on a rejection: a Connect run that reaches the write
\* after st.error forces api_validated to false and changes no exercise
\* state; a Connect run ended at st.error changes nothing, so a validated
\* session stays validated; a rejection during a generation or grading call
\* is handled as any provider failure: api_validated stays true, generation
\* stores the fallback record and grading stores the text "Error: <cause>"
\* as the report and sets the graded flag.
C18_RejectionHandling ==
    [][ /\ ConnectRejected(FALSE) =>
              /\ ~session_state'.api_validated
              /\ ExerciseState(session_state') = ExerciseState(session_state)
        /\ ConnectRejected(TRUE) => session_state' = session_state
        /\ RequestRejected =>
              /\ session_state'.api_validated
              /\ run'.exception = ""
              /\ Called(run', "generate_ab_question") =>
                    session_state'.current_question = DEMO_AB_QUESTION
              /\ Called(run', "generate_challenge") =>
                    session_state'.challenge_scenario = DEMO_CHALLENGE
              /\ Called(run', "grade_prompt") =>
                    /\ session_state'.challenge_result = call_llm(AuthenticationFailure)
                    /\ session_state'.challenge_graded
              /\ Called(run', "grade_general_prompt") =>
                    /\ session_state'.grade_my_prompt_result = call_llm(AuthenticationFailure)
                    /\ session_state'.grade_my_prompt_graded
                    /\ session_state'.analysis_history[1].result
                          = call_llm(AuthenticationFailure)
      ]_vars

-----------------------------------------------------------------------------
(* One provider call per user action *)

HistoryResults(ss) ==
    {ss.analysis_history[i].result : i \in 1..Len(ss.analysis_history)}

\* C19: each user action makes at most one provider call, and what depends
\* on the call is stored only after it has returned: a run whose call raises
\* leaves the session as it was, and the question, the scenario, the reports,
\* the Challenge's graded flag and the history get a new content only in a
\* run that made the call.
C19_OneCallThenStore ==
    /\ [](Len(run.calls) <= 1)
    /\ [][ /\ (run'.calls # <<>> /\ run'.exception = "AttributeError") =>
                 session_state' = session_state
           /\ run'.calls = <<>> =>
                 /\ session_state'.current_question \in {session_state.current_question, None}
                 /\ session_state'.challenge_scenario
                       \in {session_state.challenge_scenario, None}
                 /\ session_state'.challenge_result \in {session_state.challenge_result, None}
                 /\ session_state'.challenge_graded => session_state.challenge_graded
                 /\ session_state'.grade_my_prompt_result
                       \in {session_state.grade_my_prompt_result, None}
                             \cup HistoryResults(session_state)
                 /\ session_state'.analysis_history
                       \in {session_state.analysis_history, <<>>}
         ]_vars

C19_Witness ==
    /\ Len(run.calls) = 1
    /\ run.calls[1].function = "generate_ab_question"
    /\ run.calls[1].request
    /\ run.exception = "AttributeError"
    /\ session_state.current_question = None
    /\ session_state.correct_side = None

-----------------------------------------------------------------------------
(* The side of the strong prompt *)

\* the Compare exercise displays the stored question with its two options
QuestionShown(ss) ==
    /\ ss.api_validated
    /\ ss.lesson_selected = Lesson("compare")
    /\ ~quiz_complete(ss)
    /\ ss.current_question # None
    /\ QuestionDisplays(ss.current_question)

GenerateEvent(outcome, side) ==
    [Base EXCEPT !.button = "GENERATE QUESTION", !.outcome = outcome, !.side = side]

\* the two runs of GENERATE QUESTION that differ in the side drawn store the
\* same question, each with its side
SideIndependent(a, b) ==
    (a.handled /\ a.exception # "AttributeError") =>
        /\ b.handled
        /\ a.ss.current_question = b.ss.current_question
        /\ a.ss.correct_side = Side("A")
        /\ b.ss.correct_side = Side("B")

\* C20: correct_side is drawn from {"A", "B"} when the question is generated,
\* whatever the question's content, and the prompts are mapped to the sides
\* from it afterwards: for every shown question the option named by
\* correct_side is strong_prompt and the other is weak_prompt, and for every
\* generated question both sides are possible.
C20_StrongPromptOnCorrectSide ==
    /\ QuestionShown(session_state) =>
          /\ session_state.correct_side \in {Side("A"), Side("B")}
          /\ session_state.correct_side = Side("A") =>
                /\ option_a(session_state) = session_state.current_question.dict.strong_prompt
                /\ option_b(session_state) = session_state.current_question.dict.weak_prompt
          /\ session_state.correct_side = Side("B") =>
                /\ option_b(session_state) = session_state.current_question.dict.strong_prompt
                /\ option_a(session_state) = session_state.current_question.dict.weak_prompt
    /\ \A outcome \in ProviderOutcomes(session_state.api_provider, GenerationReplies) :
          SideIndependent(script(session_state, GenerateEvent(outcome, "A")),
                          script(session_state, GenerateEvent(outcome, "B")))

C20_Witness ==
    /\ QuestionShown(session_state)
    /\ session_state.current_question = JsonValue("{AB}")
    /\ session_state.correct_side = Side("B")
    /\ option_b(session_state) = "llm strong"
    /\ option_a(session_state) = "llm weak"

-----------------------------------------------------------------------------
(* The exercises' state machines *)

\* the free analysis is Graded
AnalysisGraded(ss) == ss.grade_my_prompt_graded

\* C21 as stated: ANALYZE grades only while grade_my_prompt_graded is false,
\* the exercise becomes Graded only through a grading action, and it returns
\* to Ready only through NEW ANALYSIS or a lesson switch.
C21_GradedOnlyByGrading ==
    [][ /\ Called(run', "grade_general_prompt") => ~AnalysisGraded(session_state)
        /\ (~AnalysisGraded(session_state) /\ AnalysisGraded(session_state')) =>
              Called(run', "grade_general_prompt")
        /\ (AnalysisGraded(session_state) /\ ~AnalysisGraded(session_state')) =>
              (NewAnalysis \/ SwitchMode)
      ]_vars

\* C21 as amended: ANALYZE grades only while grade_my_prompt_graded is false;
\* the exercise becomes Graded only through a grading action or through VIEW
\* of a history entry, which makes no provider call and shows that entry's
\* report; it returns to Ready only through NEW ANALYSIS or SWITCH MODE.
C21_GradedByGradingOrView ==
    [][ /\ Called(run', "grade_general_prompt") =>
              /\ ~AnalysisGraded(session_state)
              /\ AnalysisGraded(session_state')
        /\ (~AnalysisGraded(session_state) /\ AnalysisGraded(session_state')) =>
              \/ Called(run', "grade_general_prompt")
              \/ /\ \E index \in 1..Len(session_state.analysis_history) : ViewHistory(index)
                 /\ run'.calls = <<>>
                 /\ session_state'.grade_my_prompt_result \in HistoryResults(session_state)
        /\ (AnalysisGraded(session_state) /\ ~AnalysisGraded(session_state')) =>
              (NewAnalysis \/ SwitchMode)
      ]_vars

\* Graded through VIEW after NEW ANALYSIS: the report shown is the report
\* of the entry, and no call was made in the run
C21_Witness ==
    /\ AnalysisGraded(session_state)
    /\ run.calls = <<>>
    /\ Len(session_state.analysis_history) >= 2
    /\ session_state.grade_my_prompt_result = session_state.analysis_history[2].result
    /\ session_state.grade_my_prompt_result # session_state.analysis_history[1].result

\* C22: a scenario is generated only when none is present, NEXT CHALLENGE is
\* possible only when challenge_graded is true, and a present scenario is
\* never replaced by another one: it only goes away, through NEXT CHALLENGE
\* after grading or through a lesson switch.
C22_ScenarioGradedBeforeNext ==
    [][ /\ Called(run', "generate_challenge") => session_state.challenge_scenario = None
        /\ NextChallenge => session_state.challenge_graded
        /\ ( /\ session_state.challenge_scenario # None
             /\ session_state'.challenge_scenario # session_state.challenge_scenario ) =>
              /\ session_state'.challenge_scenario = None
              /\ session_state'.challenge_result = None
              /\ ~session_state'.challenge_graded
              /\ (session_state.challenge_graded /\ NextChallenge) \/ SwitchMode
      ]_vars

\* Graded: a generated scenario with its report, NEXT CHALLENGE enabled
C22_Witness ==
    /\ session_state.lesson_selected = Lesson("challenge")
    /\ session_state.challenge_scenario = JsonValue("{CH}")
    /\ session_state.challenge_graded
    /\ session_state.challenge_result # None
    /\ Called(run, "grade_prompt")
    /\ ~next_disabled(session_state)

-----------------------------------------------------------------------------
(* The stored Compare question *)

\* C23: a stored Compare question (current_question present) has the four
\* fields scenario, weak_prompt, strong_prompt and explanation, each a
\* non-empty string.
C23_StoredQuestionHasFourFields ==
    session_state.current_question # None =>
        /\ HasFields(session_state.current_question, AB_FIELDS)
        /\ \A field \in AB_FIELDS : session_state.current_question.dict[field] # ""

\* the part of C23 the code does meet: a stored question is not modified
\* until it is dropped by an advance, a reset or a lesson switch
C23_StoredQuestionImmutable ==
    [][ ( /\ session_state.current_question # None
          /\ session_state'.current_question # session_state.current_question ) =>
            /\ session_state'.current_question = None
            /\ NextQuestion \/ Reset \/ SwitchMode
      ]_vars

-----------------------------------------------------------------------------
(* Demo reports and the history entry *)

\* C24: in demo mode the grader returns DEMO_GRADING_RESULT for a challenge
\* and DEMO_GENERAL_GRADING_RESULT for the free analysis, whatever the
\* provider would answer; score extraction on them gives 13 and 11; so every
\* history entry that ANALYZE creates in demo mode records score 11.
C24_DemoReportsAndScores ==
    /\ [](session_state.demo_mode =>
            \A outcome \in ProviderOutcomes(session_state.api_provider, GradingReplies) :
                /\ grade_prompt(session_state, <<"p">>, "llm challenge scenario", outcome)
                      = PyStr(DEMO_GRADING_RESULT)
                /\ ExtractScore(grade_prompt(session_state, <<"p">>,
                                             "llm challenge scenario", outcome)) = PyInt(13)
                /\ grade_general_prompt(session_state, <<"p">>, outcome)
                      = PyStr(DEMO_GENERAL_GRADING_RESULT))
    /\ [][ (session_state'.demo_mode /\ Called(run', "grade_general_prompt")) =>
              /\ Len(session_state'.analysis_history) >= 1
              /\ session_state'.analysis_history[1].result = PyStr(DEMO_GENERAL_GRADING_RESULT)
              /\ session_state'.analysis_history[1].score = PyInt(11)
              /\ session_state'.grade_my_prompt_result = PyStr(DEMO_GENERAL_GRADING_RESULT)
         ]_vars

C24_Witness ==
    /\ session_state.demo_mode
    /\ Called(run, "grade_general_prompt")
    /\ Len(session_state.analysis_history) = HISTORY_LIMIT
    /\ \A i \in 1..HISTORY_LIMIT : session_state.analysis_history[i].score = PyInt(11)

\* the history entry's truncated prompt the claim gives for the prompt p
Truncated(p) ==
    IF Len(p) <= 200 THEN p ELSE SubSeq(p, 1, 200) \o <<".", ".", ".">>

\* C25: the history entry's truncated prompt is p when len(p) <= 200 and
\* otherwise the first 200 characters of p followed by "...", never longer
\* than 203; the full prompt and the full report are stored unchanged in the
\* same entry.
C25_TruncatedPrompt ==
    /\ (returned # Unused) =>
          /\ returned.result = Truncated(input.prompt)
          /\ Len(returned.result) <= 203
    /\ Called(run, "grade_general_prompt") =>
          /\ Len(session_state.analysis_history) = 1
          /\ session_state.analysis_history[1].prompt = Truncated(input.prompt)
          /\ Len(session_state.analysis_history[1].prompt) <= 203
          /\ session_state.analysis_history[1].full_prompt = input.prompt
          /\ session_state.analysis_history[1].result
                = grade_general_prompt(session_state, input.prompt, input.outcome)
          /\ session_state.analysis_history[1].result = session_state.grade_my_prompt_result

\* a prompt of 201 characters ending in "b" was analysed
C25_Witness ==
    /\ Called(run, "grade_general_prompt")
    /\ Len(input.prompt) = 201
    /\ input.prompt[201] = "b"
    /\ Len(session_state.analysis_history[1].prompt) = 203
    /\ session_state.analysis_history[1].prompt[200] = "a"
    /\ session_state.analysis_history[1].prompt[201] = "."
    /\ Len(session_state.analysis_history[1].full_prompt) = 201

-----------------------------------------------------------------------------
(* Quiz counters *)

\* one of the three actions that call reset_quiz
QuizReset == Reset \/ Retake \/ SwitchMode

\* C27: quiz_index grows only by NEXT QUESTION, by one, and NEXT QUESTION is
\* possible only while the feedback of an answered question is shown; so
\* between two resets quiz_index is the number of questions answered and
\* advanced, and quiz_index and quiz_score decrease only by a reset.
C27_IndexCountsAdvancedQuestions ==
    /\ [](session_state.quiz_index = tally.advanced)
    /\ [][ /\ NextQuestion =>
                 /\ session_state.show_feedback
                 /\ session_state.last_choice_correct # None
                 /\ session_state.current_question # None
                 /\ session_state'.quiz_index = session_state.quiz_index + 1
           /\ session_state'.quiz_index > session_state.quiz_index => NextQuestion
           /\ ( \/ session_state'.quiz_index < session_state.quiz_index
                \/ session_state'.quiz_score < session_state.quiz_score ) => QuizReset
         ]_vars

C27_Witness ==
    /\ session_state.quiz_index = 3
    /\ tally.advanced = 3
    /\ session_state.quiz_score = 2
    /\ session_state.show_feedback

\* C28: in every reachable state quiz_score <= quiz_index + (1 if
\* show_feedback else 0), and hence quiz_score <= QUIZ_LENGTH.
C28_ScoreAtMostAnswered ==
    /\ session_state.quiz_score
          <= session_state.quiz_index + (IF session_state.show_feedback THEN 1 ELSE 0)
    /\ session_state.quiz_score <= QUIZ_LENGTH

\* the last question answered, every answer correct
C28_Witness ==
    /\ session_state.show_feedback
    /\ session_state.quiz_index = QUIZ_LENGTH - 1
    /\ session_state.quiz_score = QUIZ_LENGTH
    /\ tally.correct_answers = QUIZ_LENGTH

-----------------------------------------------------------------------------
(* Credential (SpecCredential) *)

\* the last successful connection test was made with the stored key and the
\* selected provider
TestedAsStored ==
    /\ returned # Unused
    /\ returned.api_key = session_state.api_key
    /\ returned.provider = session_state.api_provider

\* C29: api_validated is true only if demo_mode is true or the most recent
\* successful connection test was made with exactly the stored api_key and
\* api_provider (editing the key, changing the provider and turning demo mode
\* off each set api_validated to false); demo_mode implies api_validated.
C29_ValidatedMeansTested ==
    /\ [](session_state.api_validated => (session_state.demo_mode \/ TestedAsStored))
    /\ [](session_state.demo_mode => session_state.api_validated)
    /\ [][ ( \/ session_state'.api_key # session_state.api_key
             \/ session_state'.api_provider # session_state.api_provider
             \/ session_state.demo_mode /\ ~session_state'.demo_mode ) =>
              ~session_state'.api_validated
         ]_vars

\* validated outside demo mode by a test of the second key under Claude
C29_Witness ==
    /\ session_state.api_validated
    /\ ~session_state.demo_mode
    /\ session_state.api_provider = "Claude"
    /\ session_state.api_key = "key-2"
    /\ TestedAsStored
    /\ session_state.lesson_selected # None

-----------------------------------------------------------------------------
(* Exercises behind the validated credential *)

\* C30 as stated: no generation or grading is executed while api_validated
\* is false, and the stored quiz, challenge and analysis state is left
\* unchanged while the session is unvalidated.
C30_UnvalidatedChangesNothing ==
    [][ /\ run'.calls # <<>> =>
              (session_state.api_validated /\ session_state'.api_validated)
        /\ ~session_state.api_validated =>
              ExerciseState(session_state') = ExerciseState(session_state)
      ]_vars

\* C30 as amended: no generation or grading is executed while api_validated
\* is false; while the session is unvalidated no exercise action is offered
\* and the stored quiz, challenge and analysis state changes only through
\* the sidebar's SWITCH MODE and RESET, which stay available and reset it.
C30_UnvalidatedOnlySidebarResets ==
    [][ /\ run'.calls # <<>> =>
              (session_state.api_validated /\ session_state'.api_validated)
        /\ ~session_state.api_validated =>
              \/ ExerciseState(session_state') = ExerciseState(session_state)
              \/ /\ SwitchMode
                 /\ QuizState(session_state') = QuizStateInitial
                 /\ TransientState(session_state') = TransientStateInitial
                 /\ session_state'.analysis_history = session_state.analysis_history
              \/ /\ Reset
                 /\ QuizState(session_state') = QuizStateInitial
                 /\ TransientState(session_state') = TransientState(session_state)
                 /\ session_state'.analysis_history = session_state.analysis_history
      ]_vars

\* the validation lost in the middle of the quiz
C30_Witness ==
    /\ ~session_state.api_validated
    /\ ~session_state.demo_mode
    /\ session_state.lesson_selected = Lesson("compare")
    /\ session_state.quiz_index = 2
    /\ session_state.current_question # None
    /\ session_state.show_feedback

-----------------------------------------------------------------------------
(* The Compare fields *)

\* C31: in every reachable state correct_side is present ("A" or "B") if
\* and only if current_question is present.
C31_SideIffQuestion ==
    /\ session_state.correct_side \in {None, Side("A"), Side("B")}
    /\ (session_state.correct_side # None) = (session_state.current_question # None)

\* the direction that holds: a stored question always has its side
C31_QuestionHasSide ==
    session_state.current_question # None =>
        session_state.correct_side \in {Side("A"), Side("B")}

\* C32: in every reachable state module_unlocked is true if and only if
\* quiz_index >= QUIZ_LENGTH.
C32_UnlockedIffComplete ==
    session_state.module_unlocked = (session_state.quiz_index >= QUIZ_LENGTH)

\* the quiz completed and the module unlocked by the last NEXT QUESTION
C32_Witness ==
    /\ session_state.module_unlocked
    /\ session_state.quiz_index = QUIZ_LENGTH
    /\ session_state.current_question = None
    /\ tally.advanced = QUIZ_LENGTH

-----------------------------------------------------------------------------
(* The Challenge fields *)

\* C33: in every reachable state challenge_graded is true if and only if
\* challenge_result is present, and challenge_graded true implies
\* challenge_scenario is present.
C33_GradedIffReport ==
    /\ session_state.challenge_graded = (session_state.challenge_result # None)
    /\ session_state.challenge_graded => session_state.challenge_scenario # None

\* what holds: a stored report belongs to a graded scenario
C33_ReportHasGradedScenario ==
    /\ session_state.challenge_result # None => session_state.challenge_graded
    /\ session_state.challenge_graded => session_state.challenge_scenario # None

-----------------------------------------------------------------------------
(* Empty prompts *)

\* the run of ANALYZE with an empty prompt from the current state
EmptyAnalyze(outcome) ==
    script(session_state, [Base EXCEPT !.button = "ANALYZE", !.user_prompt = <<>>,
                                       !.outcome = outcome])

\* the run of SUBMIT FOR GRADING with the prompt in the Challenge field
Submit(outcome) ==
    script(session_state, [Base EXCEPT !.button = "SUBMIT FOR GRADING",
                                       !.outcome = outcome])

\* the free-analysis form is rendered
AnalyzeFormShown(ss) ==
    /\ ss.api_validated
    /\ ss.lesson_selected = Lesson("grade")
    /\ ~ss.grade_my_prompt_graded

\* C34: submitting an empty prompt is rejected without effect.  ANALYZE with
\* an empty prompt makes no provider call, appends nothing to the history
\* and leaves grade_my_prompt_result and grade_my_prompt_graded unchanged;
\* in Challenge, SUBMIT FOR GRADING is disabled while the prompt is empty,
\* and no step taken with an empty prompt calls grade_prompt, stores a
\* report or sets challenge_graded.
C34_EmptyPromptRejected ==
    /\ [](\A outcome \in ProviderOutcomes(session_state.api_provider, GradingReplies) :
            /\ EmptyAnalyze(outcome).handled = AnalyzeFormShown(session_state)
            /\ EmptyAnalyze(outcome).calls = <<>>
            /\ EmptyAnalyze(outcome).ss = session_state)
    /\ [](user_prompt_input = <<>> =>
            /\ submit_disabled(session_state, user_prompt_input)
            /\ \A outcome \in ProviderOutcomes(session_state.api_provider, GradingReplies) :
                  /\ ~Submit(outcome).handled
                  /\ Submit(outcome).calls = <<>>
                  /\ Submit(outcome).ss = session_state)
    /\ [][ user_prompt_input = <<>> =>
              /\ ~Called(run', "grade_prompt")
              /\ session_state'.challenge_graded => session_state.challenge_graded
              /\ session_state'.challenge_result \in
                    {session_state.challenge_result, None}
         ]_vars

\* the form shown over a stored history, where ANALYZE with an empty prompt
\* is a click the form processes
C34_Witness ==
    /\ AnalyzeFormShown(session_state)
    /\ ~session_state.demo_mode
    /\ session_state.analysis_history # <<>>
    /\ EmptyAnalyze(Failure("cause")).handled
    /\ EmptyAnalyze(Failure("cause")).ss.analysis_history = session_state.analysis_history

\* an ungraded scenario shown with its prompt field empty
C34_ChallengeWitness ==
    /\ ChallengeInputShown(session_state)
    /\ ~session_state.challenge_graded
    /\ ~session_state.demo_mode
    /\ user_prompt_input = <<>>
    /\ ~Submit(Failure("cause")).handled

-----------------------------------------------------------------------------
(* The history's frame (SpecAnalysis, Spec) *)

\* the VIEW button of the entry at index is rendered
ViewShown(ss, index) ==
    /\ ss.api_validated
    /\ ss.lesson_selected = Lesson("grade")
    /\ index \in 1..Len(ss.analysis_history)

\* the run of VIEW on the entry at index from the current state
ViewRun(index) ==
    script(session_state, [Base EXCEPT !.button = "VIEW", !.index = index])

\* C35: viewing a history entry (VIEW) makes no provider call and leaves
\* analysis_history unchanged (same entries, same order, same length); it
\* only sets grade_my_prompt_result to that entry's stored report and
\* grade_my_prompt_graded to true.  Stated of the run of VIEW from every
\* reachable state that shows the button, for every entry.
C35_ViewOnlyShowsReport ==
    \A index \in 1..Len(session_state.analysis_history) :
        ViewShown(session_state, index) =>
            LET r == ViewRun(index)
            IN  /\ r.handled
                /\ r.calls = <<>>
                /\ r.exception = ""
                /\ r.ss.analysis_history = session_state.analysis_history
                /\ r.ss = [session_state EXCEPT
                              !.grade_my_prompt_result =
                                  session_state.analysis_history[index].result,
                              !.grade_my_prompt_graded = TRUE]

\* the third entry viewed: its report is shown, the three entries stay
C35_Witness ==
    /\ AnalysisGraded(session_state)
    /\ run.calls = <<>>
    /\ Len(session_state.analysis_history) = 3
    /\ session_state.grade_my_prompt_result = session_state.analysis_history[3].result
    /\ session_state.grade_my_prompt_result # session_state.analysis_history[1].result
    /\ session_state.grade_my_prompt_result # session_state.analysis_history[2].result

\* C36: analysis_history is changed only by a free-analysis grading action
\* (one entry put first, the last one dropped at HISTORY_LIMIT) and by CLEAR
\* HISTORY (emptied); Compare actions, Challenge generation and grading,
\* reset, lesson selection and switching, provider change, demo-mode change
\* and credential connect all leave it unchanged.
C36_HistoryChangedOnlyByAnalysis ==
    [][ LET old == session_state.analysis_history
            new == session_state'.analysis_history
        IN  /\ new # old =>
                  \/ /\ Called(run', "grade_general_prompt")
                     /\ session_state.lesson_selected = Lesson("grade")
                     /\ Len(new) = Min(Len(old) + 1, HISTORY_LIMIT)
                     /\ \A i \in 1..(Len(new) - 1) : new[i + 1] = old[i]
                  \/ /\ ClearHistory
                     /\ new = <<>>
            /\ Called(run', "grade_general_prompt") => new # old
            /\ ( \/ session_state.lesson_selected # Lesson("grade")
                 \/ session_state'.lesson_selected # session_state.lesson_selected
                 \/ session_state'.api_provider # session_state.api_provider
                 \/ session_state'.demo_mode # session_state.demo_mode
                 \/ session_state'.api_key # session_state.api_key
                 \/ session_state'.api_validated # session_state.api_validated
                 \/ QuizState(session_state') # QuizState(session_state)
                 \/ Called(run', "generate_ab_question")
                 \/ Called(run', "generate_challenge")
                 \/ Called(run', "grade_prompt") ) => new = old
      ]_vars

\* a stored entry kept through a lesson switch, an answered question and a
\* change of provider
C36_Witness ==
    /\ Len(session_state.analysis_history) = 1
    /\ session_state.lesson_selected = Lesson("compare")
    /\ session_state.quiz_index = 1
    /\ session_state.api_provider = "Claude"
    /\ session_state.grade_my_prompt_result = None

\* a stored entry kept through a graded Challenge
C36_ChallengeWitness ==
    /\ Len(session_state.analysis_history) = 1
    /\ session_state.challenge_graded
    /\ Called(run, "grade_prompt")

-----------------------------------------------------------------------------
(* The frame of the Compare actions *)

\* a step of the Compare exercise: one of its five buttons
CompareStep ==
    /\ session_state.lesson_selected = Lesson("compare")
    /\ \/ \E button \in {"SELECT A", "SELECT B"} : SelectOption(button)
       \/ NextQuestion
       \/ Retake
       \/ TryChallengeMode
       \/ /\ Called(run', "generate_ab_question")
          /\ \E outcome \in ProviderOutcomes(session_state.api_provider, GenerationReplies),
                side \in {"A", "B"} : GenerateQuestion(outcome, side)

\* C37: answering a question leaves quiz_index, current_question,
\* correct_side and module_unlocked unchanged; advancing to the next
\* question leaves quiz_score unchanged; and no Compare action changes the
\* Challenge or free-analysis state.
\* Each conjunct reads "the frame holds, or the step is not that action".
C37_CompareFrame ==
    [][ /\ \/ /\ session_state'.quiz_index = session_state.quiz_index
              /\ session_state'.current_question = session_state.current_question
              /\ session_state'.correct_side = session_state.correct_side
              /\ session_state'.module_unlocked = session_state.module_unlocked
           \/ ~(\E button \in {"SELECT A", "SELECT B"} : SelectOption(button))
        /\ \/ /\ session_state'.quiz_score = session_state.quiz_score
              /\ session_state'.quiz_index = session_state.quiz_index + 1
           \/ ~NextQuestion
        /\ \/ /\ TransientState(session_state') = TransientState(session_state)
              /\ session_state'.analysis_history = session_state.analysis_history
           \/ ~CompareStep
      ]_vars

\* the second question answered wrongly after the first was answered
\* correctly and advanced past, with an entry stored in the history
C37_Witness ==
    /\ session_state.lesson_selected = Lesson("compare")
    /\ session_state.quiz_index = 1
    /\ session_state.quiz_score = 1
    /\ session_state.show_feedback
    /\ session_state.last_choice_correct = PyBool(FALSE)
    /\ session_state.analysis_history # <<>>

-----------------------------------------------------------------------------
(* The feedback fields *)

\* C38: in every reachable state, show_feedback true implies
\* current_question is present, last_choice_correct is a boolean and
\* last_explanation equals current_question's explanation; show_feedback
\* false implies last_choice_correct is absent and last_explanation is empty.
C38_FeedbackFields ==
    /\ session_state.show_feedback =>
          /\ session_state.current_question # None
          /\ session_state.last_choice_correct \in {PyBool(TRUE), PyBool(FALSE)}
          /\ HasKey(session_state.current_question, "explanation")
          /\ session_state.last_explanation =
                 session_state.current_question.dict.explanation
    /\ ~session_state.show_feedback =>
          /\ session_state.last_choice_correct = None
          /\ session_state.last_explanation = ""

\* what holds: the half about show_feedback true, and the empty explanation
\* while show_feedback is false
C38_FeedbackShownFields ==
    /\ session_state.show_feedback =>
          /\ session_state.current_question # None
          /\ session_state.last_choice_correct \in {PyBool(TRUE), PyBool(FALSE)}
          /\ HasKey(session_state.current_question, "explanation")
          /\ session_state.last_explanation =
                 session_state.current_question.dict.explanation
    /\ ~session_state.show_feedback => session_state.last_explanation = ""

====
